---------------------------- MODULE Spec2Model ----------------------------
(***************************************************************************)
(* A model of the CHIP-8 interpreter of src/src/chip8.rs and of the input  *)
(* side of src/src/io.rs.                                                  *)
(*                                                                         *)
(* The struct Chip8 is the record variable chip8, one field per field of   *)
(* the struct.  Rust arrays are functions over 0..len-1.  A Rust panic     *)
(* (an index out of bounds, an arithmetic overflow in a build with         *)
(* overflow checks, an explicit panic!) unwinds the thread that owns the   *)
(* struct: it is recorded in the extra field chip8.panic, and nothing runs *)
(* once it is set.                                                         *)
(***************************************************************************)
EXTENDS Integers, Sequences, FiniteSets, TLC

VARIABLES
    chip8,            \* the struct Chip8 (plus the field panic, see above)
    overflow_checks,  \* the build: TRUE = arithmetic overflow panics (dev
                      \* profile), FALSE = it wraps (release profile)
    loaded,           \* position of the host: has load_game run
    hist,             \* history: one entry per call of emulate_cycle
    run_loop,         \* position of run_loop: the call it makes next
    renderer,         \* the canvas of io.rs: cells drawn, cells presented
    beeps             \* standard output: the number of lines BEEP! printed

vars == <<chip8, overflow_checks, loaded, hist, run_loop, renderer, beeps>>

---------------------------------------------------------------------------
(* Sizes fixed by the source *)

MEMORY_SIZE == 4096
GFX_SIZE == 2048
DISPLAY_WIDTH == 64
NUM_REGS == 16
STACK_SIZE == 16
NUM_KEYS == 16
FONT_SIZE == 80
PROGRAM_START == 512
U8_MOD == 256

(* usize::MAX, what 0 - 1 wraps to in a build without overflow checks.  It *)
(* is written as -1, its bits read as a signed number.                     *)
USIZE_MAX == -1

CHIP8_FONT_SET ==
    << 240, 144, 144, 144, 240,
        32,  96,  32,  32, 112,
       240,  16, 240, 128, 240,
       240,  16, 240,  16, 240,
       144, 144, 240,  16,  16,
       240, 128, 240,  16, 240,
       240, 128, 240, 144, 240,
       240,  16,  32,  64,  64,
       240, 144, 240, 144, 240,
       240, 144, 240,  16, 240,
       240, 144, 240, 144, 144,
       224, 144, 224, 144, 224,
       240, 128, 128, 128, 240,
       224, 144, 144, 144, 224,
       240, 128, 240, 128, 240,
       240, 128, 240, 128, 128 >>

ChipState == {"Block", "Run", "Draw", "Clear", "Pause", "Quit"}

---------------------------------------------------------------------------
(* Bit operations on naturals, as Rust's &, |, ^ on unsigned integers *)

RECURSIVE BitAnd(_, _)
BitAnd(a, b) ==
    IF a = 0 \/ b = 0 THEN 0
    ELSE (IF a % 2 = 1 /\ b % 2 = 1 THEN 1 ELSE 0) + 2 * BitAnd(a \div 2, b \div 2)

RECURSIVE BitOr(_, _)
BitOr(a, b) ==
    IF a = 0 THEN b
    ELSE IF b = 0 THEN a
    ELSE (IF a % 2 = 1 \/ b % 2 = 1 THEN 1 ELSE 0) + 2 * BitOr(a \div 2, b \div 2)

RECURSIVE BitXor(_, _)
BitXor(a, b) ==
    IF a = 0 THEN b
    ELSE IF b = 0 THEN a
    ELSE (IF (a % 2) # (b % 2) THEN 1 ELSE 0) + 2 * BitXor(a \div 2, b \div 2)

RECURSIVE Pow2(_)
Pow2(n) == IF n = 0 THEN 1 ELSE 2 * Pow2(n - 1)

Shr(a, n) == a \div Pow2(n)

(* The thread unwinds with chip8 as it is at that point *)
Panic(c, why) == [c EXCEPT !.panic = why]

Running(c) == c.panic = "none"

(* the nibble fields of an instruction word, as each handler extracts them *)
OpX(op_code) == Shr(BitAnd(op_code, \h0F00), 8)
OpY(op_code) == Shr(BitAnd(op_code, \h00F0), 4)
OpN(op_code) == BitAnd(op_code, \h000F)
OpNN(op_code) == BitAnd(op_code, \h00FF)
OpNNN(op_code) == BitAnd(op_code, \h0FFF)

---------------------------------------------------------------------------
(* Chip8::new *)

(* new with the loop over the font table one short: for number in 0..79 *)
new_font_short ==
    [ memory |-> [a \in 0..(MEMORY_SIZE - 1) |->
                     IF a < FONT_SIZE - 1 THEN CHIP8_FONT_SET[a + 1] ELSE 0],
      v |-> [r \in 0..(NUM_REGS - 1) |-> 0],
      i |-> 0,
      program_counter |-> PROGRAM_START,
      gfx |-> [p \in 0..(GFX_SIZE - 1) |-> 0],
      state |-> "Run",
      delay_timer |-> 0,
      sound_timer |-> 0,
      stack |-> [s \in 0..(STACK_SIZE - 1) |-> 0],
      stack_pointer |-> 0,
      keys |-> [k \in 0..(NUM_KEYS - 1) |-> 0],
      panic |-> "none" ]

new ==
    [ memory |-> [a \in 0..(MEMORY_SIZE - 1) |->
                     IF a < FONT_SIZE THEN CHIP8_FONT_SET[a + 1] ELSE 0],
      v |-> [r \in 0..(NUM_REGS - 1) |-> 0],
      i |-> 0,
      program_counter |-> PROGRAM_START,
      gfx |-> [p \in 0..(GFX_SIZE - 1) |-> 0],
      state |-> "Run",
      delay_timer |-> 0,
      sound_timer |-> 0,
      stack |-> [s \in 0..(STACK_SIZE - 1) |-> 0],
      stack_pointer |-> 0,
      keys |-> [k \in 0..(NUM_KEYS - 1) |-> 0],
      panic |-> "none" ]

(* load_game: the bytes of the file are written from program_counter on, *)
(* one by one; the write of a byte at index 4096 panics, the bytes       *)
(* before it written.  load_range is the loop over the bytes lo..hi of   *)
(* the file, in order, split in two halves to bound the nesting.         *)
RECURSIVE load_range(_, _, _, _)
load_range(c, contents, lo, hi) ==
    IF lo > hi THEN c
    ELSE IF lo = hi
      THEN LET index == c.program_counter + (lo - 1)
           IN  IF index >= MEMORY_SIZE
                 THEN Panic(c, "index out of bounds")
                 ELSE [c EXCEPT !.memory[index] = contents[lo]]
      ELSE LET mid == (lo + hi) \div 2
               c1 == load_range(c, contents, lo, mid)
           IN  IF Running(c1) THEN load_range(c1, contents, mid + 1, hi) ELSE c1

load_game(c, contents) == load_range(c, contents, 1, Len(contents))

(* get_op_code: None stands for the panic of memory[program_counter] or *)
(* memory[program_counter + 1] out of bounds                            *)
NoOpCode == -1

get_op_code(c) ==
    IF c.program_counter + 1 >= MEMORY_SIZE
      THEN NoOpCode
      ELSE c.memory[c.program_counter] * 256 + c.memory[c.program_counter + 1]

---------------------------------------------------------------------------
(* The opcode handlers, in the order of the source.  Each takes the struct *)
(* and the instruction word and gives the struct after the handler, or the *)
(* struct as the panic leaves it.                                          *)

(* 0x00E0 leaving the display buffer to Renderer::clear *)
clear_screen_no_fill(c) ==
    [c EXCEPT !.state = "Clear",
              !.program_counter = @ + 2]

(* 0x00E0 *)
clear_screen(c) ==
    [c EXCEPT !.gfx = [p \in 0..(GFX_SIZE - 1) |-> 0],
              !.state = "Clear",
              !.program_counter = @ + 2]

(* return_from_subroutine resuming at the call itself: the + 2 left out *)
return_to_call_site(c) ==
    IF c.stack_pointer = 0
      THEN Panic(c, "index out of bounds")
      ELSE [c EXCEPT !.stack_pointer = @ - 1,
                     !.program_counter = BitAnd(c.stack[c.stack_pointer - 1], \h0FFF)]

(* 0x00EE.  stack_pointer -= 1 at 0 panics in a build with overflow checks; *)
(* without them it wraps to usize::MAX and the index into stack panics.     *)
return_from_subroutine(c) ==
    IF c.stack_pointer = 0
      THEN IF overflow_checks
             THEN Panic(c, "attempt to subtract with overflow")
             ELSE Panic([c EXCEPT !.stack_pointer = USIZE_MAX], "index out of bounds")
      ELSE LET sp == c.stack_pointer - 1
           IN  IF sp >= STACK_SIZE
                 THEN Panic([c EXCEPT !.stack_pointer = sp], "index out of bounds")
                 ELSE [c EXCEPT !.stack_pointer = sp,
                                !.program_counter = BitAnd(c.stack[sp], \h0FFF) + 2]

(* 0x1NNN *)
goto(c, op_code) ==
    [c EXCEPT !.program_counter = OpNNN(op_code)]

(* 0x2NNN *)
call_subroutine(c, op_code) ==
    IF c.stack_pointer >= STACK_SIZE
      THEN Panic(c, "index out of bounds")
      ELSE IF c.program_counter > 65535
        THEN Panic(c, "unwrap on an Err value")
        ELSE [c EXCEPT !.stack[c.stack_pointer] = c.program_counter,
                       !.stack_pointer = @ + 1,
                       !.program_counter = OpNNN(op_code)]

(* 0x3XNN *)
skip_if_eq_to_nn(c, op_code) ==
    LET x == OpX(op_code)
        val == OpNN(op_code)
    IN  IF c.v[x] = val
          THEN [c EXCEPT !.program_counter = @ + 4]
          ELSE [c EXCEPT !.program_counter = @ + 2]

(* 0x4XNN *)
skip_if_not_eq_to_nn(c, op_code) ==
    LET x == OpX(op_code)
        val == OpNN(op_code)
    IN  IF c.v[x] # val
          THEN [c EXCEPT !.program_counter = @ + 4]
          ELSE [c EXCEPT !.program_counter = @ + 2]

(* 0x5XY0 *)
skip_if_vx_eq_to_vy(c, op_code) ==
    LET x == OpX(op_code)
        y == OpY(op_code)
    IN  IF c.v[x] = c.v[y]
          THEN [c EXCEPT !.program_counter = @ + 4]
          ELSE [c EXCEPT !.program_counter = @ + 2]

(* 0x6XNN *)
set_vx_to_nn(c, op_code) ==
    [c EXCEPT !.v[OpX(op_code)] = OpNN(op_code),
              !.program_counter = @ + 2]

(* 0x7XNN.  v[x] += val on u8: panics on overflow in a build with overflow *)
(* checks, wraps otherwise.                                                *)
add_nn_to_vx(c, op_code) ==
    LET x == OpX(op_code)
        val == OpNN(op_code)
        sum == c.v[x] + val
    IN  IF sum >= U8_MOD /\ overflow_checks
          THEN Panic(c, "attempt to add with overflow")
          ELSE [c EXCEPT !.v[x] = sum % U8_MOD,
                         !.program_counter = @ + 2]

(* 0x8XY0 *)
set_vx_to_vy(c, op_code) ==
    [c EXCEPT !.v[OpX(op_code)] = c.v[OpY(op_code)],
              !.program_counter = @ + 2]

(* 0x8XY1 *)
set_vx_to_vx_or_vy(c, op_code) ==
    [c EXCEPT !.v[OpX(op_code)] = BitOr(@, c.v[OpY(op_code)]),
              !.program_counter = @ + 2]

(* 0x8XY2 *)
set_vx_to_vx_and_vy(c, op_code) ==
    [c EXCEPT !.v[OpX(op_code)] = BitAnd(@, c.v[OpY(op_code)]),
              !.program_counter = @ + 2]

(* 0x8XY3 *)
set_vx_to_vx_xor_vy(c, op_code) ==
    [c EXCEPT !.v[OpX(op_code)] = BitXor(@, c.v[OpY(op_code)]),
              !.program_counter = @ + 2]

(* 0x8XY4.  VF is written first, from the comparison v[y] > v[x]; the sum *)
(* is then taken of the registers as they are after that write.           *)
set_vx_to_vx_plus_vy(c, op_code) ==
    LET x == OpX(op_code)
        y == OpY(op_code)
        c1 == [c EXCEPT !.v[15] = IF c.v[y] > c.v[x] THEN 1 ELSE 0]
        sum == c1.v[x] + c1.v[y]
    IN  IF sum >= U8_MOD /\ overflow_checks
          THEN Panic(c1, "attempt to add with overflow")
          ELSE [c1 EXCEPT !.v[x] = sum % U8_MOD,
                          !.program_counter = @ + 2]

(* 0x8XY5.  VF from v[x] > v[y], then v[x] -= v[y] on u8. *)
set_vx_to_vx_minus_vy(c, op_code) ==
    LET x == OpX(op_code)
        y == OpY(op_code)
        c1 == [c EXCEPT !.v[15] = IF c.v[x] > c.v[y] THEN 1 ELSE 0]
        diff == c1.v[x] - c1.v[y]
    IN  IF diff < 0 /\ overflow_checks
          THEN Panic(c1, "attempt to subtract with overflow")
          ELSE [c1 EXCEPT !.v[x] = diff % U8_MOD,
                          !.program_counter = @ + 2]

(* 0x8XY6 *)
shift_right(c, op_code) ==
    LET x == OpX(op_code)
        c1 == [c EXCEPT !.v[15] = BitAnd(c.v[x], 1)]
    IN  [c1 EXCEPT !.v[x] = Shr(c1.v[x], 1),
                   !.program_counter = @ + 2]

(* 0x8XY7.  VF from v[y] > v[x], then v[x] = v[y] - v[x] on u8. *)
set_vx_to_vy_minus_vx(c, op_code) ==
    LET x == OpX(op_code)
        y == OpY(op_code)
        c1 == [c EXCEPT !.v[15] = IF c.v[y] > c.v[x] THEN 1 ELSE 0]
        diff == c1.v[y] - c1.v[x]
    IN  IF diff < 0 /\ overflow_checks
          THEN Panic(c1, "attempt to subtract with overflow")
          ELSE [c1 EXCEPT !.v[x] = diff % U8_MOD,
                          !.program_counter = @ + 2]

(* 0x8XYE with the flag taken by a mask, not shifted down: VF = Vx & 0x80 *)
shift_left_masked(c, op_code) ==
    LET x == OpX(op_code)
        c1 == [c EXCEPT !.v[15] = BitAnd(c.v[x], \h80)]
    IN  [c1 EXCEPT !.v[x] = (c1.v[x] * 2) % U8_MOD,
                   !.program_counter = @ + 2]

(* 0x8XYE.  <<= drops the bit shifted out in every build. *)
shift_left(c, op_code) ==
    LET x == OpX(op_code)
        c1 == [c EXCEPT !.v[15] = Shr(c.v[x], 7)]
    IN  [c1 EXCEPT !.v[x] = (c1.v[x] * 2) % U8_MOD,
                   !.program_counter = @ + 2]

(* 0x9XY0 with the test of 0x5XY0 copied *)
skip_if_vx_not_eq_vy_copied(c, op_code) ==
    LET x == OpX(op_code)
        y == OpY(op_code)
    IN  IF c.v[x] = c.v[y]
          THEN [c EXCEPT !.program_counter = @ + 4]
          ELSE [c EXCEPT !.program_counter = @ + 2]

(* 0x9XY0 *)
skip_if_vx_not_eq_vy(c, op_code) ==
    LET x == OpX(op_code)
        y == OpY(op_code)
    IN  IF c.v[x] # c.v[y]
          THEN [c EXCEPT !.program_counter = @ + 4]
          ELSE [c EXCEPT !.program_counter = @ + 2]

(* 0xANNN *)
set_i_to_nnn(c, op_code) ==
    [c EXCEPT !.i = OpNNN(op_code),
              !.program_counter = @ + 2]

(* 0xBNNN *)
goto_nnn_plus_v0(c, op_code) ==
    [c EXCEPT !.program_counter = c.v[0] + OpNNN(op_code)]

(* 0xCXNN.  rnd is the value of gen_range(0..255). *)
set_vx_to_rand_and_nn(c, op_code, rnd) ==
    [c EXCEPT !.v[OpX(op_code)] = BitAnd(rnd, OpNN(op_code)),
              !.program_counter = @ + 2]

(* 0xDXYN.  The inner loop of draw over the 8 bits of one sprite row: a set *)
(* bit indexes gfx at x + x_offset + (y + y_offset) * 64, unchecked against *)
(* the row's end; an index past gfx panics, the pixels before it toggled.   *)
(* draw_row with VF taken from the last pixel toggled, not kept once set *)
RECURSIVE draw_row_last(_, _, _, _, _, _)
draw_row_last(c, pixel, x, y, y_offset, x_offset) ==
    IF x_offset >= 8 THEN c
    ELSE IF BitAnd(pixel, Shr(\h80, x_offset)) # 0
      THEN LET index == x + x_offset + ((y + y_offset) * DISPLAY_WIDTH)
           IN  IF index >= GFX_SIZE
                 THEN Panic(c, "index out of bounds")
                 ELSE draw_row_last([c EXCEPT !.v[15] = IF c.gfx[index] = 1 THEN 1 ELSE 0,
                                              !.gfx[index] = BitXor(@, 1)],
                                    pixel, x, y, y_offset, x_offset + 1)
      ELSE draw_row_last(c, pixel, x, y, y_offset, x_offset + 1)

RECURSIVE draw_row(_, _, _, _, _, _)
draw_row(c, pixel, x, y, y_offset, x_offset) ==
    IF x_offset >= 8 THEN c
    ELSE IF BitAnd(pixel, Shr(\h80, x_offset)) # 0
      THEN LET index == x + x_offset + ((y + y_offset) * DISPLAY_WIDTH)
           IN  IF index >= GFX_SIZE
                 THEN Panic(c, "index out of bounds")
                 ELSE draw_row([c EXCEPT !.v[15] = IF c.gfx[index] = 1 THEN 1 ELSE @,
                                         !.gfx[index] = BitXor(@, 1)],
                               pixel, x, y, y_offset, x_offset + 1)
      ELSE draw_row(c, pixel, x, y, y_offset, x_offset + 1)

(* The outer loop of draw over the rows y_offset..height-1 of the sprite *)
RECURSIVE draw_rows(_, _, _, _, _)
draw_rows(c, x, y, height, y_offset) ==
    IF y_offset >= height THEN c
    ELSE IF c.i + y_offset >= MEMORY_SIZE
      THEN Panic(c, "index out of bounds")
      ELSE LET c1 == draw_row(c, c.memory[c.i + y_offset], x, y, y_offset, 0)
           IN  IF Running(c1) THEN draw_rows(c1, x, y, height, y_offset + 1)
                              ELSE c1

draw(c, op_code) ==
    LET x == c.v[OpX(op_code)]
        y == c.v[OpY(op_code)]
        height == OpN(op_code)
        c1 == draw_rows([c EXCEPT !.v[15] = 0], x, y, height, 0)
    IN  IF Running(c1)
          THEN [c1 EXCEPT !.state = "Draw",
                          !.program_counter = @ + 2]
          ELSE c1

(* 0xEX9E *)
skip_if_key_pressed(c, op_code) ==
    LET x == OpX(op_code)
        index == c.v[x]
    IN  IF index >= NUM_KEYS
          THEN Panic(c, "index out of bounds")
          ELSE IF c.keys[index] # 0
            THEN [c EXCEPT !.program_counter = @ + 4]
            ELSE [c EXCEPT !.program_counter = @ + 2]

(* 0xEXA1 *)
skip_if_not_key_pressed(c, op_code) ==
    LET x == OpX(op_code)
        index == c.v[x]
    IN  IF index >= NUM_KEYS
          THEN Panic(c, "index out of bounds")
          ELSE IF c.keys[index] = 0
            THEN [c EXCEPT !.program_counter = @ + 4]
            ELSE [c EXCEPT !.program_counter = @ + 2]

(* 0xFX07 *)
set_vx_to_delay_timer(c, op_code) ==
    [c EXCEPT !.v[OpX(op_code)] = c.delay_timer,
              !.program_counter = @ + 2]

(* is_key_press with the loop over the keys keeping the last key found *)
is_key_press_last(c, op_code) ==
    LET x == OpX(op_code)
        pressed == {k \in 0..(NUM_KEYS - 1) : c.keys[k] = 1}
    IN  IF pressed = {}
          THEN [c EXCEPT !.state = "Block"]
          ELSE LET last == CHOOSE k \in pressed : \A k2 \in pressed : k >= k2
               IN  [c EXCEPT !.v[x] = last,
                             !.state = "Run",
                             !.program_counter = @ + 2]

(* 0xFX0A.  The loop over 0..16 stops at the first key whose latch is 1. *)
is_key_press(c, op_code) ==
    LET x == OpX(op_code)
        pressed == {k \in 0..(NUM_KEYS - 1) : c.keys[k] = 1}
    IN  IF pressed = {}
          THEN [c EXCEPT !.state = "Block"]
          ELSE LET first == CHOOSE k \in pressed : \A k2 \in pressed : k <= k2
               IN  [c EXCEPT !.v[x] = first,
                             !.state = "Run",
                             !.program_counter = @ + 2]

(* 0xFX15 *)
set_delay_timer_to_vx(c, op_code) ==
    [c EXCEPT !.delay_timer = c.v[OpX(op_code)],
              !.program_counter = @ + 2]

(* 0xFX18 *)
set_sound_timer_to_vx(c, op_code) ==
    [c EXCEPT !.sound_timer = c.v[OpX(op_code)],
              !.program_counter = @ + 2]

(* 0xFX1E.  i is a usize: the sum cannot leave it within any run modelled. *)
add_vx_to_i(c, op_code) ==
    [c EXCEPT !.i = @ + c.v[OpX(op_code)],
              !.program_counter = @ + 2]

(* 0xFX29 with the glyphs taken to be 4 bytes long *)
set_i_to_sprite_by_four(c, op_code) ==
    [c EXCEPT !.i = c.v[OpX(op_code)] * 4,
              !.program_counter = @ + 2]

(* 0xFX29 *)
set_i_to_sprite(c, op_code) ==
    [c EXCEPT !.i = c.v[OpX(op_code)] * 5,
              !.program_counter = @ + 2]

(* 0xFX33 with the tens digit not reduced: memory[i + 1] = Vx / 10 *)
bcd_tens_unreduced(c, op_code) ==
    LET vx == c.v[OpX(op_code)]
    IN  IF c.i >= MEMORY_SIZE THEN Panic(c, "index out of bounds")
        ELSE LET c1 == [c EXCEPT !.memory[c.i] = vx \div 100]
        IN  IF c.i + 1 >= MEMORY_SIZE THEN Panic(c1, "index out of bounds")
        ELSE LET c2 == [c1 EXCEPT !.memory[c.i + 1] = vx \div 10]
        IN  IF c.i + 2 >= MEMORY_SIZE THEN Panic(c2, "index out of bounds")
        ELSE [c2 EXCEPT !.memory[c.i + 2] = (vx % 100) % 10,
                        !.program_counter = @ + 2]

(* 0xFX33.  Three writes in turn, each indexing memory. *)
bcd(c, op_code) ==
    LET vx == c.v[OpX(op_code)]
    IN  IF c.i >= MEMORY_SIZE THEN Panic(c, "index out of bounds")
        ELSE LET c1 == [c EXCEPT !.memory[c.i] = vx \div 100]
        IN  IF c.i + 1 >= MEMORY_SIZE THEN Panic(c1, "index out of bounds")
        ELSE LET c2 == [c1 EXCEPT !.memory[c.i + 1] = (vx \div 10) % 10]
        IN  IF c.i + 2 >= MEMORY_SIZE THEN Panic(c2, "index out of bounds")
        ELSE [c2 EXCEPT !.memory[c.i + 2] = (vx % 100) % 10,
                        !.program_counter = @ + 2]

(* 0xFX55: the loop for n in 0..(x + 1), from n on *)
RECURSIVE reg_dump_from(_, _, _)
reg_dump_from(c, x, n) ==
    IF n >= x + 1 THEN c
    ELSE IF c.i + n >= MEMORY_SIZE
      THEN Panic(c, "index out of bounds")
      ELSE reg_dump_from([c EXCEPT !.memory[c.i + n] = c.v[n]], x, n + 1)

reg_dump(c, op_code) ==
    LET c1 == reg_dump_from(c, OpX(op_code), 0)
    IN  IF Running(c1) THEN [c1 EXCEPT !.program_counter = @ + 2] ELSE c1

(* 0xFX65: the loop for n in 0..(x + 1), from n on *)
RECURSIVE reg_load_from(_, _, _)
reg_load_from(c, x, n) ==
    IF n >= x + 1 THEN c
    ELSE IF c.i + n >= MEMORY_SIZE
      THEN Panic(c, "index out of bounds")
      ELSE reg_load_from([c EXCEPT !.v[n] = c.memory[c.i + n]], x, n + 1)

(* reg_load with the loop one register short: for n in 0..x *)
reg_load_short(c, op_code) ==
    LET c1 == reg_load_from(c, OpX(op_code) - 1, 0)
    IN  IF Running(c1) THEN [c1 EXCEPT !.program_counter = @ + 2] ELSE c1

reg_load(c, op_code) ==
    LET c1 == reg_load_from(c, OpX(op_code), 0)
    IN  IF Running(c1) THEN [c1 EXCEPT !.program_counter = @ + 2] ELSE c1

---------------------------------------------------------------------------
(* execute: fetch and the nested match of the source.  Family 0x0, 0x8 and *)
(* 0xE select on the low nibble alone, family 0xF on the low byte; 5XY0    *)
(* and 9XY0 are selected by the high nibble alone.                         *)

decode(c, op_code, rnd) ==
    LET family == BitAnd(op_code, \hF000)
        low == BitAnd(op_code, \h000F)
        byte == BitAnd(op_code, \h00FF)
    IN  CASE family = \h0000 ->
               (CASE low = \h0 -> clear_screen(c)
                  [] low = \hE -> return_from_subroutine(c)
                  [] OTHER -> Panic(c, "Unknown opcode"))
          [] family = \h1000 -> goto(c, op_code)
          [] family = \h2000 -> call_subroutine(c, op_code)
          [] family = \h3000 -> skip_if_eq_to_nn(c, op_code)
          [] family = \h4000 -> skip_if_not_eq_to_nn(c, op_code)
          [] family = \h5000 -> skip_if_vx_eq_to_vy(c, op_code)
          [] family = \h6000 -> set_vx_to_nn(c, op_code)
          [] family = \h7000 -> add_nn_to_vx(c, op_code)
          [] family = \h8000 ->
               (CASE low = \h0 -> set_vx_to_vy(c, op_code)
                  [] low = \h1 -> set_vx_to_vx_or_vy(c, op_code)
                  [] low = \h2 -> set_vx_to_vx_and_vy(c, op_code)
                  [] low = \h3 -> set_vx_to_vx_xor_vy(c, op_code)
                  [] low = \h4 -> set_vx_to_vx_plus_vy(c, op_code)
                  [] low = \h5 -> set_vx_to_vx_minus_vy(c, op_code)
                  [] low = \h6 -> shift_right(c, op_code)
                  [] low = \h7 -> set_vx_to_vy_minus_vx(c, op_code)
                  [] low = \hE -> shift_left(c, op_code)
                  [] OTHER -> Panic(c, "Unknown opcode"))
          [] family = \h9000 -> skip_if_vx_not_eq_vy(c, op_code)
          [] family = \hA000 -> set_i_to_nnn(c, op_code)
          [] family = \hB000 -> goto_nnn_plus_v0(c, op_code)
          [] family = \hC000 -> set_vx_to_rand_and_nn(c, op_code, rnd)
          [] family = \hD000 -> draw(c, op_code)
          [] family = \hE000 ->
               (CASE low = \hE -> skip_if_key_pressed(c, op_code)
                  [] low = \h1 -> skip_if_not_key_pressed(c, op_code)
                  [] OTHER -> Panic(c, "Unknown opcode"))
          [] family = \hF000 ->
               (CASE byte = \h07 -> set_vx_to_delay_timer(c, op_code)
                  [] byte = \h0A -> is_key_press(c, op_code)
                  [] byte = \h15 -> set_delay_timer_to_vx(c, op_code)
                  [] byte = \h18 -> set_sound_timer_to_vx(c, op_code)
                  [] byte = \h1E -> add_vx_to_i(c, op_code)
                  [] byte = \h29 -> set_i_to_sprite(c, op_code)
                  [] byte = \h33 -> bcd(c, op_code)
                  [] byte = \h55 -> reg_dump(c, op_code)
                  [] byte = \h65 -> reg_load(c, op_code)
                  [] OTHER -> Panic(c, "Unknown opcode"))
          [] OTHER -> Panic(c, "Unknown opcode")

(* execute with the arm of 0xB000 calling the handler of 0xC000 *)
execute_b_as_c(c, rnd) ==
    LET op_code == get_op_code(c)
    IN  IF op_code = NoOpCode
          THEN Panic(c, "index out of bounds")
        ELSE IF BitAnd(op_code, \hF000) = \hB000
          THEN set_vx_to_rand_and_nn(c, op_code, rnd)
          ELSE decode(c, op_code, rnd)

execute(c, rnd) ==
    LET op_code == get_op_code(c)
    IN  IF op_code = NoOpCode
          THEN Panic(c, "index out of bounds")
          ELSE decode(c, op_code, rnd)

(* emulate_cycle: the state is reset to Run unless it is Block, one       *)
(* instruction runs, and unless that left the state Block the two timers  *)
(* count down (the sleep of 1/60 s beside the delay timer is not          *)
(* modelled).                                                             *)
update_timers(c) ==
    [c EXCEPT !.delay_timer = IF @ > 0 THEN @ - 1 ELSE @,
              !.sound_timer = IF @ > 0 THEN @ - 1 ELSE @]

emulate_cycle(c, rnd) ==
    LET c1 == IF c.state # "Block" THEN [c EXCEPT !.state = "Run"] ELSE c
        c2 == execute(c1, rnd)
    IN  IF ~Running(c2) THEN c2
        ELSE IF c2.state = "Block" THEN c2
        ELSE update_timers(c2)

(* the timer update of emulate_cycle printing BEEP! on every decrement *)
(* of the sound timer                                                  *)
beep_on_every_decrement(c) == c.sound_timer > 0

(* if self.sound_timer > 0 { if self.sound_timer == 1 { println!("BEEP!") } *)
beep(c) == c.sound_timer > 0 /\ c.sound_timer = 1

(* the number of lines BEEP! the call emulate_cycle prints *)
emulate_cycle_beeps(c, rnd) ==
    LET c1 == IF c.state # "Block" THEN [c EXCEPT !.state = "Run"] ELSE c
        c2 == execute(c1, rnd)
    IN  IF Running(c2) /\ c2.state # "Block" /\ beep(c2) THEN 1 ELSE 0

---------------------------------------------------------------------------
(* The history.  Each call of emulate_cycle appends what it fetched and   *)
(* the struct as it was when the call began, without the two large arrays; *)
(* the display as it was is kept for the instructions of the families of   *)
(* draw (0xD000) and of clear (0x0000).                                    *)

View(c) ==
    [ v |-> c.v, i |-> c.i, program_counter |-> c.program_counter,
      state |-> c.state, delay_timer |-> c.delay_timer,
      sound_timer |-> c.sound_timer, stack |-> c.stack,
      stack_pointer |-> c.stack_pointer, keys |-> c.keys ]

Family(op_code) == IF op_code = NoOpCode THEN NoOpCode ELSE BitAnd(op_code, \hF000)

Entry(c, rnd) ==
    [ op |-> get_op_code(c),
      rnd |-> rnd,
      before |-> View(c),
      gfx |-> IF Family(get_op_code(c)) \in {\hD000, \h0000} THEN c.gfx ELSE <<>> ]

(* The values gen_range(0..255) can give: the upper end is excluded *)
RandomBytes(c) ==
    IF Family(get_op_code(c)) = \hC000 THEN 0..254 ELSE {0}

---------------------------------------------------------------------------
(* Actions *)

Init ==
    /\ chip8 = new
    /\ overflow_checks \in BOOLEAN
    /\ loaded = FALSE
    /\ hist = << >>
    /\ run_loop = "emulate_cycle"
    /\ renderer = [canvas |-> {}, presented |-> {}]
    /\ beeps = 0

(* load_game with one of the files roms *)
LoadGame(roms) ==
    /\ ~loaded
    /\ Running(chip8)
    /\ \E rom \in roms : chip8' = load_game(chip8, rom)
    /\ loaded' = TRUE
    /\ UNCHANGED <<overflow_checks, hist, run_loop, renderer, beeps>>

(* One call of emulate_cycle by a host that calls it directly, as the    *)
(* tests call execute; at most max calls are followed.                   *)
Cycle(max) ==
    /\ loaded
    /\ Running(chip8)
    /\ Len(hist) < max
    /\ \E rnd \in RandomBytes(chip8) :
          /\ chip8' = emulate_cycle(chip8, rnd)
          /\ beeps' = beeps + emulate_cycle_beeps(chip8, rnd)
          /\ hist' = Append(hist, Entry(chip8, rnd))
    /\ UNCHANGED <<overflow_checks, loaded, run_loop, renderer>>

---------------------------------------------------------------------------
(* Program files.  A file is the sequence of its bytes. *)

RECURSIVE Asm(_)
Asm(ops) ==
    IF ops = << >> THEN << >>
    ELSE <<Head(ops) \div 256, Head(ops) % 256>> \o Asm(Tail(ops))

Ins(family, x, y, n) == family + x * 256 + y * 16 + n
InsNN(family, x, nn) == family + x * 256 + nn

(* register indices and byte values the program files are built from *)
RegSamples == {0, 3, 15}
ByteSamples == {0, 1, 100, 128, 255}

(* What has run last *)
Stepped == Len(hist) > 0
Last == hist[Len(hist)]
LastX == OpX(Last.op)
LastY == OpY(Last.op)
IsOp(op_code, family, n) ==
    /\ op_code # NoOpCode
    /\ BitAnd(op_code, \hF000) = family
    /\ BitAnd(op_code, \h000F) = n

---------------------------------------------------------------------------
(* Arithmetic programs: 6XNN, 6YNN, then one instruction of the 8XY family *)
(* or 7XNN.                                                                *)

AluSteps == 3

AluRoms ==
    { Asm(<<InsNN(\h6000, x, a), InsNN(\h6000, y, b), Ins(\h8000, x, y, n)>>) :
        <<x, y, a, b, n>> \in
            RegSamples \X RegSamples \X ByteSamples \X ByteSamples \X {4, 5, 7} }
    \cup
    { Asm(<<InsNN(\h6000, x, a), InsNN(\h6000, y, b), InsNN(\h7000, x, nn)>>) :
        <<x, y, a, b, nn>> \in
            RegSamples \X {15} \X ByteSamples \X {0, 1} \X ByteSamples }

LoadAlu == LoadGame(AluRoms)
StepAlu == Cycle(AluSteps)
NextAlu == LoadAlu \/ StepAlu
SpecAlu == Init /\ [][NextAlu]_vars

(* C1: one step of 8xy4 with x # F does not fail and leaves                *)
(* Vx = (a + b) mod 256 and VF = 1 exactly when a + b > 255, for a = Vx    *)
(* and b = Vy before the step (y may be F).                                *)
C1_AddSetsCarry ==
    (Stepped /\ IsOp(Last.op, \h8000, 4) /\ LastX # 15) =>
        LET a == Last.before.v[LastX]
            b == Last.before.v[LastY]
        IN  /\ Running(chip8)
            /\ chip8.v[LastX] = (a + b) % 256
            /\ chip8.v[15] = IF a + b > 255 THEN 1 ELSE 0

(* C2: one step of 8xy5 with x # F does not fail and leaves                *)
(* Vx = (a - b) mod 256 and VF = 1 exactly when a >= b.                    *)
C2_SubSetsNoBorrow ==
    (Stepped /\ IsOp(Last.op, \h8000, 5) /\ LastX # 15) =>
        LET a == Last.before.v[LastX]
            b == Last.before.v[LastY]
        IN  /\ Running(chip8)
            /\ chip8.v[LastX] = (a - b) % 256
            /\ chip8.v[15] = IF a >= b THEN 1 ELSE 0

(* C3: one step of 8xy7 with x # F does not fail and leaves                *)
(* Vx = (b - a) mod 256, Vy as it was, and VF = 1 exactly when b >= a.     *)
C3_SubnSetsNoBorrow ==
    (Stepped /\ IsOp(Last.op, \h8000, 7) /\ LastX # 15) =>
        LET a == Last.before.v[LastX]
            b == Last.before.v[LastY]
        IN  /\ Running(chip8)
            /\ chip8.v[LastX] = (b - a) % 256
            /\ (LastY # LastX /\ LastY # 15) => chip8.v[LastY] = b
            /\ chip8.v[15] = IF b >= a THEN 1 ELSE 0

(* C4: one step of 7xnn never fails and leaves Vx = (a + nn) mod 256, PC   *)
(* advanced by 2 and, when x # F, VF as it was.                            *)
C4_AddImmediateWraps ==
    (Stepped /\ Last.op # NoOpCode /\ Family(Last.op) = \h7000) =>
        LET a == Last.before.v[LastX]
            nn == OpNN(Last.op)
        IN  /\ Running(chip8)
            /\ chip8.v[LastX] = (a + nn) % 256
            /\ chip8.program_counter = Last.before.program_counter + 2
            /\ LastX # 15 => chip8.v[15] = Last.before.v[15]

---------------------------------------------------------------------------
(* Drawing programs: I = sprite A, V0 = vx, V1 = vy, draw n rows; then     *)
(* I = sprite B and the same draw twice.  The two sprites follow the code  *)
(* in the file.                                                            *)

DrawSteps == 7

DrawCodeLen == 2 * 7

SpriteSamples == { <<\hF0, \h0F>>, <<\hCC, \hFF>>, <<\h00, \h00>> }

DrawRoms ==
    { Asm(<<\hA000 + PROGRAM_START + DrawCodeLen,
            InsNN(\h6000, 0, vx),
            InsNN(\h6000, 1, vy),
            Ins(\hD000, 0, 1, n),
            \hA000 + PROGRAM_START + DrawCodeLen + 2,
            Ins(\hD000, 0, 1, n),
            Ins(\hD000, 0, 1, n)>>) \o sa \o sb :
        <<vx, vy, n, sa, sb>> \in
            {0, 60, 255} \X {0, 31, 255} \X {0, 1, 2, 15}
                \X SpriteSamples \X SpriteSamples }

LoadDraw == LoadGame(DrawRoms)
StepDraw == Cycle(DrawSteps)
NextDraw == LoadDraw \/ StepDraw
SpecDraw == Init /\ [][NextDraw]_vars

Prev == hist[Len(hist) - 1]

IsDraw(op_code) == op_code # NoOpCode /\ Family(op_code) = \hD000

(* the last two calls ran the same Dxyn from the same I, Vx and Vy *)
DrewTwice ==
    /\ Len(hist) >= 2
    /\ IsDraw(Last.op)
    /\ Prev.op = Last.op
    /\ Prev.before.i = Last.before.i
    /\ Prev.before.v[LastX] = Last.before.v[LastX]
    /\ Prev.before.v[LastY] = Last.before.v[LastY]

TurnedOn(before, after) ==
    \E p \in 0..(GFX_SIZE - 1) : before[p] = 0 /\ after[p] = 1

(* C5: a draw Dxyn with x and y not F can be run for every sprite, height  *)
(* and position, and run twice in a row from the same I, Vx and Vy it      *)
(* leaves the display as it was before the first of the two, with VF = 1   *)
(* after the second exactly when the first turned on some pixel.           *)
C5_DrawTwiceRestores ==
    (Stepped /\ IsDraw(Last.op) /\ LastX # 15 /\ LastY # 15) =>
        /\ Running(chip8)
        /\ DrewTwice =>
              /\ chip8.gfx = Prev.gfx
              /\ chip8.v[15] = IF TurnedOn(Prev.gfx, Last.gfx) THEN 1 ELSE 0

(* What does hold of the two draws: whenever both ran to their end, the    *)
(* display is restored and VF is as C5 says.                               *)
DrawTwiceRestoresIfNoPanic ==
    (DrewTwice /\ Running(chip8)) =>
        /\ chip8.gfx = Prev.gfx
        /\ chip8.v[15] = IF TurnedOn(Prev.gfx, Last.gfx) THEN 1 ELSE 0

---------------------------------------------------------------------------
(* Register programs: I = addr; V0, V3, VF set; FX55; V0, V3, VF set to     *)
(* other values; FX65.  The addresses include the font, the last cells of  *)
(* memory and the cell of the FX65 instruction itself.                     *)

RegSteps == 9

RegAddrs == {0, 768, PROGRAM_START + 16, 4080, 4092, 4095}

RegRoms ==
    { Asm(<<\hA000 + addr,
            InsNN(\h6000, 0, a), InsNN(\h6000, 3, \h22), InsNN(\h6000, 15, f),
            InsNN(\hF000, x, \h55),
            InsNN(\h6000, 0, \hAA), InsNN(\h6000, 3, \hBB), InsNN(\h6000, 15, \hCC),
            InsNN(\hF000, x, \h65)>>) :
        <<addr, x, a, f>> \in RegAddrs \X RegSamples \X {\h11, \hFF} \X {0, \h33} }

LoadRegs == LoadGame(RegRoms)
StepRegs == Cycle(RegSteps)
NextRegs == LoadRegs \/ StepRegs
SpecRegs == Init /\ [][NextRegs]_vars

IsF(op_code, byte) ==
    /\ op_code # NoOpCode
    /\ Family(op_code) = \hF000
    /\ OpNN(op_code) = byte

(* the registers after the k-th call *)
After(k) == IF k < Len(hist) THEN hist[k + 1].before ELSE View(chip8)

(* no instruction that stores to memory ran between the j-th and the k-th call *)
NoStoreBetween(j, k) ==
    \A m \in (j + 1)..(k - 1) : ~IsF(hist[m].op, \h33) /\ ~IsF(hist[m].op, \h55)

(* the j-th call ran Fx55 and the last call Fx65, same x and I, I + x in memory *)
DumpThenLoad(j) ==
    /\ j \in 1..(Len(hist) - 1)
    /\ IsF(hist[j].op, \h55)
    /\ IsF(Last.op, \h65)
    /\ OpX(hist[j].op) = LastX
    /\ hist[j].before.i + LastX < MEMORY_SIZE
    /\ Last.before.i = hist[j].before.i
    /\ NoStoreBetween(j, Len(hist))

(* C6: Fx55 and, later, Fx65 with the same x and I (I + x < 4096, no store  *)
(* to memory in between): V0..Vx are again what they were before Fx55       *)
(* whatever they were changed to, the registers above Vx are not touched   *)
(* by Fx65, neither instruction fails and neither changes I.               *)
C6_DumpLoadRoundTrip ==
    \A j \in 1..(Len(hist) - 1) :
        DumpThenLoad(j) =>
            /\ Running(chip8)
            /\ \A n \in 0..LastX : chip8.v[n] = hist[j].before.v[n]
            /\ \A n \in (LastX + 1)..(NUM_REGS - 1) : chip8.v[n] = Last.before.v[n]
            /\ After(j).i = hist[j].before.i
            /\ chip8.i = Last.before.i

(* Fx55 then FF65 at the top of memory has brought back V0, V3 and VF, all *)
(* three changed in between                                                *)
C6_Witness ==
    \E j \in 1..(Len(hist) - 1) :
        /\ DumpThenLoad(j)
        /\ LastX = 15
        /\ Last.before.i = 4080
        /\ Running(chip8)
        /\ chip8.v[0] = \hFF /\ chip8.v[3] = \h22 /\ chip8.v[15] = \h33
        /\ Last.before.v[0] = \hAA /\ Last.before.v[3] = \hBB /\ Last.before.v[15] = \hCC

---------------------------------------------------------------------------
(* Subroutine programs.  ChainRom(d): d nested calls, the k-th at          *)
(* 0x200 + 4k calling 0x200 + 4(k+1), each followed by 00EE, and 00EE at   *)
(* the innermost target.                                                   *)

CallSteps == 34

Zeros(n) == [k \in 1..n |-> 0]

RECURSIVE ChainOps(_, _)
ChainOps(k, d) ==
    IF k >= d THEN <<\h00EE>>
    ELSE <<\h2000 + PROGRAM_START + 4 * (k + 1), \h00EE>> \o ChainOps(k + 1, d)

ChainRom(d) == Asm(ChainOps(0, d))

CallRoms ==
    { ChainRom(d) : d \in {1, 2, 3, 16, 17} }
    \cup
    { \* jump to 0x300, call 0x400 from there, return
      Asm(<<\h1300>>) \o Zeros(254) \o Asm(<<\h2400, \h00EE>>) \o Zeros(252)
          \o Asm(<<\h00EE>>),
      \* the call at the last cells of memory: 0xFFC calls 0xFFE
      Asm(<<\h1FFC>>) \o Zeros(3578) \o Asm(<<\h2FFE, \h00EE>>),
      \* a subroutine calling itself
      Asm(<<\h2200>>),
      \* calls one after the other and nested
      Asm(<<\h2208, \h2208, \h220A, \h00EE, \h00EE, \h2208, \h00EE>>) }

LoadCall == LoadGame(CallRoms)
StepCall == Cycle(CallSteps)
NextCall == LoadCall \/ StepCall
SpecCall == Init /\ [][NextCall]_vars

IsCall(op_code) == op_code # NoOpCode /\ Family(op_code) = \h2000
IsReturn(op_code) == op_code = \h00EE

(* The call among the calls 1..m of emulate_cycle that is still without *)
(* its return once depth returns after it are accounted for; 0 if none  *)
RECURSIVE UnreturnedCall(_, _)
UnreturnedCall(m, depth) ==
    IF m = 0 THEN 0
    ELSE IF IsCall(hist[m].op)
      THEN IF depth = 0 THEN m ELSE UnreturnedCall(m - 1, depth - 1)
    ELSE IF IsReturn(hist[m].op)
      THEN UnreturnedCall(m - 1, depth + 1)
    ELSE UnreturnedCall(m - 1, depth)

(* the most recent unreturned call before the last call of emulate_cycle *)
MatchingCall == UnreturnedCall(Len(hist) - 1, 0)

(* C7: 2nnn at PC = p with SP < 16 stores p at stack[SP], adds 1 to SP and *)
(* sets PC = nnn; 00EE resumes at p + 2 for the call site p of the most    *)
(* recent call not yet returned from, with SP as it was before that call,  *)
(* at every nesting depth up to 16.                                        *)
C7_CallReturnLifo ==
    /\ (Stepped /\ IsCall(Last.op) /\ Last.before.stack_pointer < STACK_SIZE) =>
          /\ Running(chip8)
          /\ chip8.stack[Last.before.stack_pointer] = Last.before.program_counter
          /\ chip8.stack_pointer = Last.before.stack_pointer + 1
          /\ chip8.program_counter = OpNNN(Last.op)
    /\ (Stepped /\ IsReturn(Last.op) /\ MatchingCall # 0) =>
          /\ Running(chip8)
          /\ chip8.program_counter = hist[MatchingCall].before.program_counter + 2
          /\ chip8.stack_pointer = hist[MatchingCall].before.stack_pointer

(* sixteen nested calls have all been returned from, the last return *)
(* resuming after the first call                                     *)
C7_Witness ==
    /\ Len(hist) = 32
    /\ IsReturn(Last.op)
    /\ MatchingCall = 1
    /\ hist[16].before.stack_pointer = 15
    /\ hist[17].before.stack_pointer = 16
    /\ chip8.stack_pointer = 0
    /\ chip8.program_counter = PROGRAM_START + 2
    /\ Running(chip8)

---------------------------------------------------------------------------
(* io.rs.  Keyboard::keys_pressed drains the event queue; an event is a   *)
(* record with its type and, for a key event, its keycode.                *)

Keycodes ==
    << "Num1", "Num2", "Num3", "Num4", "Q", "W", "E", "R",
       "A", "S", "D", "F", "Z", "X", "C", "V" >>

(* the key a keycode is latched as: its place in the two match blocks *)
KeyOf(keycode) ==
    IF \E k \in 1..NUM_KEYS : Keycodes[k] = keycode
      THEN (CHOOSE k \in 1..NUM_KEYS : Keycodes[k] = keycode) - 1
      ELSE -1

handle_event(c, event) ==
    CASE event.type = "Quit" -> [c EXCEPT !.state = "Quit"]
      [] event.type = "KeyDown" ->
            IF KeyOf(event.keycode) >= 0
              THEN [c EXCEPT !.keys[KeyOf(event.keycode)] = 1]
            ELSE IF event.keycode = "Space"
              THEN [c EXCEPT !.state = IF @ = "Pause" THEN "Run" ELSE "Pause"]
            ELSE c
      [] event.type = "KeyUp" ->
            IF KeyOf(event.keycode) >= 0
              THEN [c EXCEPT !.keys[KeyOf(event.keycode)] = 0]
              ELSE c
      [] OTHER -> c

(* the events the model draws from: Quit, and key events of four keycodes *)
KeycodeSamples == {"Num3", "W", "Space", "Escape"}
Events ==
    {[type |-> "Quit"]}
    \cup {[type |-> t, keycode |-> k] : t \in {"KeyDown", "KeyUp"}, k \in KeycodeSamples}

(* keys_pressed handles the events of the queue one after the other, as   *)
(* many as there are.  It touches the two things it borrows, keys and     *)
(* state; drained(S) is what they can be when the queue is empty, for S   *)
(* what they can be after some of the events.                             *)
RECURSIVE drained(_)
drained(S) ==
    LET T == S \cup {handle_event(ks, event) : ks \in S, event \in Events}
    IN  IF T = S THEN S ELSE drained(T)

keys_pressed(c) ==
    { [c EXCEPT !.keys = ks.keys, !.state = ks.state] :
        ks \in drained({[keys |-> c.keys, state |-> c.state]}) }

(* Renderer::clear fills the canvas with the background colour;           *)
(* Renderer::draw clears, fills the cell (i % 64, i / 64) of every pixel  *)
(* that is 1 and presents the canvas.  Errors of SDL are not modelled.    *)
renderer_clear(r) == [r EXCEPT !.canvas = {}]

renderer_draw(r, gfx) ==
    LET dots == { <<i % DISPLAY_WIDTH, i \div DISPLAY_WIDTH>> :
                    i \in {j \in 0..(GFX_SIZE - 1) : gfx[j] = 1} }
    IN  [canvas |-> dots, presented |-> dots]

---------------------------------------------------------------------------
(* run_loop, one action per call it makes in an iteration *)

(* the condition of run_loop read as "unless the user has quit" *)
run_loop_emulates_unless_quit(c) == c.state # "Quit"

(* if self.state != ChipState::Pause *)
run_loop_emulates(c) == c.state # "Pause"

(* if self.state != ChipState::Pause { self.emulate_cycle(); } *)
RunEmulateCycle(max) ==
    /\ loaded
    /\ Running(chip8)
    /\ run_loop = "emulate_cycle"
    /\ IF run_loop_emulates(chip8)
         THEN /\ Len(hist) < max
              /\ \E rnd \in RandomBytes(chip8) :
                    /\ chip8' = emulate_cycle(chip8, rnd)
                    /\ beeps' = beeps + emulate_cycle_beeps(chip8, rnd)
                    /\ hist' = Append(hist, Entry(chip8, rnd))
         ELSE UNCHANGED <<chip8, hist, beeps>>
    /\ run_loop' = "keys_pressed"
    /\ UNCHANGED <<overflow_checks, loaded, renderer>>

RunKeysPressed ==
    /\ Running(chip8)
    /\ run_loop = "keys_pressed"
    /\ chip8' \in keys_pressed(chip8)
    /\ run_loop' = "match"
    /\ UNCHANGED <<overflow_checks, loaded, hist, renderer, beeps>>

RunMatch ==
    /\ run_loop = "match"
    /\ renderer' = CASE chip8.state = "Draw" -> renderer_draw(renderer, chip8.gfx)
                     [] chip8.state = "Clear" -> renderer_clear(renderer)
                     [] OTHER -> renderer
    /\ run_loop' = IF chip8.state = "Quit" THEN "returned" ELSE "emulate_cycle"
    /\ UNCHANGED <<chip8, overflow_checks, loaded, hist, beeps>>

---------------------------------------------------------------------------
(* Key programs *)

KeySteps == 3

KeyRoms ==
    { \* wait for a key into V3, draw the glyph at I = 0 at (V3, V3), clear
      Asm(<<\hF30A, \hD335, \h00E0, \h1200>>),
      \* two waits one after the other
      Asm(<<\hFF0A, \hF30A>>) }

LoadKey == LoadGame(KeyRoms)
StepKey == RunEmulateCycle(KeySteps)
Next == LoadKey \/ StepKey \/ RunKeysPressed \/ RunMatch
Spec == Init /\ [][Next]_vars

IsKeyWait(op_code) ==
    /\ op_code # NoOpCode
    /\ Family(op_code) = \hF000
    /\ OpNN(op_code) = \h0A

Pressed(keys) == {k \in 0..(NUM_KEYS - 1) : keys[k] = 1}
Lowest(S) == CHOOSE k \in S : \A k2 \in S : k <= k2

CycleStep == Len(hist') = Len(hist) + 1

(* C8: a cycle with PC at Fx0A and no key pressed leaves the state Block  *)
(* and everything else of the machine (PC, V0..VF, I, memory, stack,      *)
(* display) as it was, however often it is repeated; a cycle with PC at   *)
(* Fx0A and a key pressed sets Vx to the lowest pressed key, the state to *)
(* Run and adds exactly 2 to PC.                                          *)
C8_KeyWait ==
    [][ (CycleStep /\ IsKeyWait(get_op_code(chip8))) =>
          IF Pressed(chip8.keys) = {}
            THEN chip8' = [chip8 EXCEPT !.state = "Block"]
            ELSE /\ Running(chip8')
                 /\ chip8'.v = [chip8.v EXCEPT ![OpX(get_op_code(chip8))] =
                                                  Lowest(Pressed(chip8.keys))]
                 /\ chip8'.state = "Run"
                 /\ chip8'.program_counter = chip8.program_counter + 2 ]_vars

(* two cycles have waited at the same Fx0A without a key, the third *)
(* found two keys pressed and took the lower one                    *)
C8_Witness ==
    /\ Len(hist) = 3
    /\ run_loop = "keys_pressed"
    /\ \A k \in 1..3 : /\ IsKeyWait(hist[k].op)
                       /\ hist[k].before.program_counter = PROGRAM_START
    /\ \A k \in 1..2 : Pressed(hist[k].before.keys) = {}
    /\ hist[2].before.state = "Block"
    /\ Pressed(Last.before.keys) = {2, 5}
    /\ chip8.v[LastX] = 2
    /\ chip8.state = "Run"
    /\ chip8.program_counter = PROGRAM_START + 2

---------------------------------------------------------------------------
(* Decoding programs: V1 and V2 are set, a glyph is drawn, a subroutine   *)
(* is called, and its first instruction is the word under test.           *)

DecodeSteps == 5

DecodeWords ==
    { \h00E0, \h00EE, \h0120, \h01EE, \h0121, \h0000,
      \h5120, \h5121, \h9120, \h9121,
      \hE19E, \hE1A1, \hE10E, \hE101, \hE19F,
      \h8120, \h8128, \h812F, \hF107, \hF1FF }

DecodeRoms ==
    { Asm(<<InsNN(\h6000, 1, 1), InsNN(\h6000, 2, b), \hD125, \h2208, w>>) :
        b \in {1, 2}, w \in DecodeWords }

LoadDecode == LoadGame(DecodeRoms)
StepDecode == Cycle(DecodeSteps)
NextDecode == LoadDecode \/ StepDecode
SpecDecode == Init /\ [][NextDecode]_vars

(* the words the comments of execute and of the handlers name: 00E0, *)
(* 00EE, 1NNN, ..., 5XY0, ..., 8XY0..8XY7, 8XYE, 9XY0, ..., EX9E,    *)
(* EXA1, FX07, ..., FX65                                             *)
InOpcodeTable(op_code) ==
    LET family == Family(op_code)
    IN  CASE family = \h0000 -> op_code \in {\h00E0, \h00EE}
          [] family \in {\h5000, \h9000} -> OpN(op_code) = 0
          [] family = \h8000 -> OpN(op_code) \in (0..7) \cup {14}
          [] family = \hE000 -> OpNN(op_code) \in {\h9E, \hA1}
          [] family = \hF000 ->
                OpNN(op_code) \in {\h07, \h0A, \h15, \h18, \h1E, \h29, \h33, \h55, \h65}
          [] OTHER -> TRUE

Fetched == Stepped /\ Last.op # NoOpCode

(* C9: a cycle that fetches a word outside the opcode table does not *)
(* abort the host and ends with the execution state Halted.          *)
C9_UnknownOpcodeHalts ==
    (Fetched /\ ~InOpcodeTable(Last.op)) =>
        /\ Running(chip8)
        /\ chip8.state = "Halted"

(* C10: a word of the families 0x0, 0x5, 0x9 and 0xE outside the opcode  *)
(* table runs no handler: V0..VF, I, PC, SP, the stack and the display   *)
(* are as before the cycle, and the word is reported as an unknown       *)
(* opcode.                                                               *)
C10_DecodeExact ==
    (/\ Fetched
     /\ Family(Last.op) \in {\h0000, \h5000, \h9000, \hE000}
     /\ ~InOpcodeTable(Last.op)) =>
        /\ chip8.v = Last.before.v
        /\ chip8.i = Last.before.i
        /\ chip8.program_counter = Last.before.program_counter
        /\ chip8.stack_pointer = Last.before.stack_pointer
        /\ chip8.stack = Last.before.stack
        /\ Last.gfx # << >> => chip8.gfx = Last.gfx
        /\ chip8.panic = "Unknown opcode"

---------------------------------------------------------------------------
(* Fetch programs: a jump 1NNN, or 60VV and a jump BNNN, to the end of    *)
(* memory and beyond; the instructions after it are the zeros of memory.  *)

FetchSteps == 4

FetchTargets == {\h0204, \h0FFC, \h0FFE, \h0FFF}

FetchRoms ==
    { Asm(<<\h1000 + nnn>>) : nnn \in FetchTargets }
    \cup
    { Asm(<<InsNN(\h6000, 0, v0), \hB000 + nnn>>) :
        v0 \in ByteSamples, nnn \in FetchTargets }

LoadFetch == LoadGame(FetchRoms)
StepFetch == Cycle(FetchSteps)
NextFetch == LoadFetch \/ StepFetch
SpecFetch == Init /\ [][NextFetch]_vars

(* the last call of emulate_cycle left these fields of the struct as *)
(* they were when it began                                           *)
Unchanged(fields) ==
    \A f \in fields : View(chip8)[f] = Last.before[f]

(* C11: with PC + 1 < 4096 the word fetched is memory[PC] * 256 +          *)
(* memory[PC + 1]; a cycle that starts with PC + 1 >= 4096 fails without   *)
(* aborting the host, the error held by the state Halted, and changes no   *)
(* register, stack entry, memory cell or display cell.                     *)
C11_FetchChecked ==
    /\ (Running(chip8) /\ chip8.program_counter + 1 < MEMORY_SIZE) =>
          get_op_code(chip8) = chip8.memory[chip8.program_counter] * 256
                                 + chip8.memory[chip8.program_counter + 1]
    /\ (Stepped /\ Last.before.program_counter + 1 >= MEMORY_SIZE) =>
          /\ Running(chip8)
          /\ chip8.state = "Halted"
          /\ Unchanged({"v", "i", "program_counter", "stack", "stack_pointer"})

(* the same without the manner of failing: a cycle that starts with *)
(* PC + 1 >= 4096 reads nothing and changes nothing but the state   *)
FetchBeyondChangesNothing ==
    [][ (CycleStep /\ chip8.program_counter + 1 >= MEMORY_SIZE) =>
          chip8' = [chip8 EXCEPT !.state = "Run", !.panic = "index out of bounds"]
      ]_vars

---------------------------------------------------------------------------
(* C12: 00EE with SP = 0 and 2nnn with SP = 16 fail without aborting the   *)
(* host, the error held by the state Halted, and leave SP, PC and the 16   *)
(* stack entries as they were; SP is in 0..16 in every reachable state.    *)
C12_StackChecked ==
    /\ (Stepped /\ IsReturn(Last.op) /\ Last.before.stack_pointer = 0) =>
          /\ Running(chip8)
          /\ chip8.state = "Halted"
          /\ Unchanged({"stack_pointer", "program_counter", "stack"})
    /\ (Stepped /\ IsCall(Last.op) /\ Last.before.stack_pointer = STACK_SIZE) =>
          /\ Running(chip8)
          /\ chip8.state = "Halted"
          /\ Unchanged({"stack_pointer", "program_counter", "stack"})
    /\ chip8.stack_pointer \in 0..STACK_SIZE

(* as long as no call of emulate_cycle has panicked SP is in 0..16 *)
StackPointerInRangeWhileRunning ==
    Running(chip8) => chip8.stack_pointer \in 0..STACK_SIZE

---------------------------------------------------------------------------
(* Programs reaching memory through I at the end of memory: ANNN, 60VV,   *)
(* F01E raise I to NNN + VV, 61.. and 6F.. give the registers values, and *)
(* one of Dxyn, Fx33, Fx55, Fx65 runs.                                    *)

MemSteps == 6

MemAddrs == {\h0FF0, \h0FFC, \h0FFE, \h0FFF}

MemOps == {\hD112, \hD110, \hF133, \hF055, \hF355, \hFF65, \hF065}

MemRoms ==
    { Asm(<<\hA000 + nnn, InsNN(\h6000, 0, vv), \hF01E,
            InsNN(\h6000, 1, \h07), InsNN(\h6000, 15, \h09), op_code>>) :
        nnn \in MemAddrs, vv \in {0, 1, 2, 255}, op_code \in MemOps }

LoadMem == LoadGame(MemRoms)
StepMem == Cycle(MemSteps)
NextMem == LoadMem \/ StepMem
SpecMem == Init /\ [][NextMem]_vars

(* the highest address the instruction at PC reaches through I, -1 if *)
(* it reaches none                                                     *)
LastAddress(c) ==
    LET op_code == get_op_code(c)
    IN  IF op_code = NoOpCode THEN -1
        ELSE IF IsDraw(op_code) THEN (IF OpN(op_code) = 0 THEN -1
                                      ELSE c.i + OpN(op_code) - 1)
        ELSE IF IsF(op_code, \h33) THEN c.i + 2
        ELSE IF IsF(op_code, \h55) \/ IsF(op_code, \h65) THEN c.i + OpX(op_code)
        ELSE -1

(* C13: a cycle whose Dxyn, Fx33, Fx55 or Fx65 would reach an address    *)
(* I + offset >= 4096 fails without aborting the host, the error held by *)
(* the state Halted, and leaves memory, V0..VF and I as they were.       *)
C13_MemoryChecked ==
    [][ (CycleStep /\ LastAddress(chip8) >= MEMORY_SIZE) =>
          /\ Running(chip8')
          /\ chip8'.state = "Halted"
          /\ chip8'.memory = chip8.memory
          /\ chip8'.v = chip8.v
          /\ chip8'.i = chip8.i ]_vars

(* no address is wrapped: such a cycle writes to no cell below I *)
MemoryBeyondNotWrapped ==
    [][ (CycleStep /\ LastAddress(chip8) >= MEMORY_SIZE) =>
          /\ ~Running(chip8')
          /\ \A a \in 0..(MEMORY_SIZE - 1) :
                a < chip8.i => chip8'.memory[a] = chip8.memory[a] ]_vars

---------------------------------------------------------------------------
(* Key-skip programs under run_loop: 6XVV, then EX9E or EXA1; the keys    *)
(* are pressed and released by the events between the two cycles.         *)

SkipKeySteps == 2

SkipKeyRoms ==
    { Asm(<<InsNN(\h6000, x, vv), InsNN(\hE000, x, nn)>>) :
        x \in {1, 15}, vv \in {2, 5, 15, 16, 255}, nn \in {\h9E, \hA1} }

LoadSkipKey == LoadGame(SkipKeyRoms)
StepSkipKey == RunEmulateCycle(SkipKeySteps)
NextSkipKey == LoadSkipKey \/ StepSkipKey \/ RunKeysPressed \/ RunMatch
SpecSkipKey == Init /\ [][NextSkipKey]_vars

IsSkipKey(op_code, byte) ==
    /\ op_code # NoOpCode
    /\ Family(op_code) = \hE000
    /\ OpNN(op_code) = byte

(* what EX9E (byte 0x9E) and EXA1 (byte 0xA1) add to PC for the key vx *)
SkipKeyAdvance(c, byte, vx) ==
    IF (byte = \h9E) = (c.keys[vx] = 1) THEN 4 ELSE 2

(* with Vx in 0..15 the cycle of EX9E or EXA1 (the timers being 0) adds *)
(* 4 or 2 to PC, sets the state Run and changes nothing else            *)
SkipKeyInRange ==
    [][ \A byte \in {\h9E, \hA1} :
          (/\ CycleStep
           /\ IsSkipKey(get_op_code(chip8), byte)
           /\ chip8.v[OpX(get_op_code(chip8))] < NUM_KEYS) =>
             chip8' = [chip8 EXCEPT
                         !.state = "Run",
                         !.program_counter =
                            @ + SkipKeyAdvance(chip8, byte,
                                               chip8.v[OpX(get_op_code(chip8))])]
      ]_vars

(* C14: with Vx in 0..15, Ex9E adds 4 to PC if key Vx is pressed and 2   *)
(* otherwise, ExA1 adds 4 if it is not pressed and 2 otherwise, and      *)
(* nothing else changes; with Vx >= 16 the cycle fails without aborting  *)
(* the host, the error held by the state Halted.                         *)
C14_KeySkipChecked ==
    [][ \A byte \in {\h9E, \hA1} :
          (CycleStep /\ IsSkipKey(get_op_code(chip8), byte)) =>
             LET vx == chip8.v[OpX(get_op_code(chip8))]
             IN  IF vx < NUM_KEYS
                   THEN chip8' = [chip8 EXCEPT
                                    !.state = "Run",
                                    !.program_counter =
                                       @ + SkipKeyAdvance(chip8, byte, vx)]
                   ELSE /\ Running(chip8')
                        /\ chip8'.state = "Halted"
      ]_vars

---------------------------------------------------------------------------
(* Collision programs: VF = 1, I at the first sprite, VX and VY set to a  *)
(* place where the sprite lies inside the display, DXYN, I at the second  *)
(* sprite, DXYN again, and a jump to itself.  The sprites follow the code *)
(* in the file.                                                           *)

CollideSteps == 7

(* eight instructions of two bytes *)
CollideCodeLen == 2 * 8

CollideRoms ==
    { Asm(<<\h6F01,
            \hA000 + PROGRAM_START + CollideCodeLen,
            InsNN(\h6000, x, vx),
            InsNN(\h6000, 1, vy),
            Ins(\hD000, x, 1, n),
            \hA000 + PROGRAM_START + CollideCodeLen + 2,
            Ins(\hD000, x, 1, n),
            \h1000 + PROGRAM_START + CollideCodeLen - 2>>) \o sa \o sb :
        <<x, vx, vy, n, sa, sb>> \in
            {0, 15} \X {0, 56} \X {0, 30} \X {0, 1, 2}
                \X SpriteSamples \X SpriteSamples }

LoadCollide == LoadGame(CollideRoms)
StepCollide == Cycle(CollideSteps)
NextCollide == LoadCollide \/ StepCollide
SpecCollide == Init /\ [][NextCollide]_vars

(* the last draw: its corner and height, and whether the 8 x height box *)
(* lies inside the display and its rows inside memory                   *)
DrawnAtX == Last.before.v[LastX]
DrawnAtY == Last.before.v[LastY]
DrawnInside ==
    /\ DrawnAtX + 7 < DISPLAY_WIDTH
    /\ DrawnAtY + OpN(Last.op) - 1 < GFX_SIZE \div DISPLAY_WIDTH
    /\ Last.before.i + OpN(Last.op) <= MEMORY_SIZE

(* the display cells that are the target of a set bit of the sprite *)
(* drawn last                                                        *)
Targets ==
    { (DrawnAtX + rc[2]) + (DrawnAtY + rc[1]) * DISPLAY_WIDTH :
        rc \in { rc \in (0..(OpN(Last.op) - 1)) \X (0..7) :
                   BitAnd(chip8.memory[Last.before.i + rc[1]], Shr(\h80, rc[2])) # 0 } }

(* the display gfx with the cells of S toggled *)
RECURSIVE Toggled(_, _)
Toggled(gfx, S) ==
    IF S = {} THEN gfx
    ELSE LET p == CHOOSE p \in S : TRUE
         IN  Toggled([gfx EXCEPT ![p] = 1 - @], S \ {p})

TurnedOff(before, after) ==
    \E p \in 0..(GFX_SIZE - 1) : before[p] = 1 /\ after[p] = 0

(* C15: after a draw whose 8 x n box lies inside the display (and whose  *)
(* n rows lie inside memory) VF = 1 if some pixel went from 1 to 0 and   *)
(* VF = 0 otherwise, whatever VF was; exactly the targets of the set     *)
(* bits are toggled; n = 0 changes no pixel and gives VF = 0; the state  *)
(* is Draw and PC has advanced by 2.                                     *)
C15_CollisionFlag ==
    (Stepped /\ IsDraw(Last.op) /\ DrawnInside) =>
        /\ Running(chip8)
        /\ chip8.v[15] = IF TurnedOff(Last.gfx, chip8.gfx) THEN 1 ELSE 0
        /\ chip8.gfx = Toggled(Last.gfx, Targets)
        /\ OpN(Last.op) = 0 => (chip8.gfx = Last.gfx /\ chip8.v[15] = 0)
        /\ chip8.state = "Draw"
        /\ chip8.program_counter = Last.before.program_counter + 2

(* the second draw of a program found VF = 0 left by the first, which had *)
(* found VF = 1; in one row it turned a pixel off and then, further to    *)
(* the right, another one on                                              *)
C15_Witness ==
    /\ Len(hist) = CollideSteps
    /\ IsDraw(Last.op) /\ DrawnInside /\ Running(chip8)
    /\ hist[5].before.v[15] = 1
    /\ Last.before.v[15] = 0
    /\ chip8.v[15] = 1
    /\ \E p \in Targets, q \in Targets :
          /\ p < q /\ p \div DISPLAY_WIDTH = q \div DISPLAY_WIDTH
          /\ Last.gfx[p] = 1 /\ chip8.gfx[p] = 0
          /\ Last.gfx[q] = 0 /\ chip8.gfx[q] = 1

---------------------------------------------------------------------------
(* the display cells that are the target of a set bit of the sprite drawn *)
(* last and lie in a column below 64 and a row below 32                   *)
ClippedTargets ==
    { (DrawnAtX + rc[2]) + (DrawnAtY + rc[1]) * DISPLAY_WIDTH :
        rc \in { rc \in (0..(OpN(Last.op) - 1)) \X (0..7) :
                   /\ DrawnAtX + rc[2] < DISPLAY_WIDTH
                   /\ DrawnAtY + rc[1] < GFX_SIZE \div DISPLAY_WIDTH
                   /\ Last.before.i + rc[1] < MEMORY_SIZE
                   /\ BitAnd(chip8.memory[Last.before.i + rc[1]], Shr(\h80, rc[2])) # 0 } }

(* C16: for every Vx and Vy a draw never fails because of a target out of *)
(* range, and a set bit whose column Vx + col is >= 64 or whose row       *)
(* Vy + row is >= 32 changes no display cell: the cells toggled are the   *)
(* targets in range and no others.                                        *)
C16_DrawClips ==
    (Stepped /\ IsDraw(Last.op)) =>
        /\ Running(chip8)
        /\ chip8.gfx = Toggled(Last.gfx, ClippedTargets)

---------------------------------------------------------------------------
(* Program files by length, up to and over the 4096 - 512 bytes there is  *)
(* room for.  The bytes of a file are 61 NN 61 NN ..: V1 = NN.            *)

LoadSteps == 6

PROGRAM_ROOM == MEMORY_SIZE - PROGRAM_START

LoadLens == {0, 1, 2, 5, PROGRAM_ROOM - 1, PROGRAM_ROOM, PROGRAM_ROOM + 1, PROGRAM_ROOM + 16}

FileOf(len, nn) == [k \in 1..len |-> IF k % 2 = 1 THEN \h61 ELSE nn]

LoadRoms == { FileOf(len, nn) : len \in LoadLens, nn \in {\h01, \hFF} }

LoadLoad == LoadGame(LoadRoms)
StepLoad == Cycle(LoadSteps)
NextLoad == LoadLoad \/ StepLoad
SpecLoad == Init /\ [][NextLoad]_vars

(* memory with the first bytes of the file contents, as many as there is *)
(* room for, from 0x200 on, and as Chip8::new leaves it elsewhere        *)
MemoryWith(contents) ==
    [a \in 0..(MEMORY_SIZE - 1) |->
        IF a >= PROGRAM_START /\ a - PROGRAM_START < Len(contents)
          THEN contents[a - PROGRAM_START + 1]
          ELSE new.memory[a]]

JustLoaded == loaded /\ hist = << >>

(* C17: load_game writes the len bytes of the file, in order, to          *)
(* memory[0x200 .. 0x200 + len) and changes no other cell; a file longer  *)
(* than 3584 bytes is rejected without aborting the host, the font and    *)
(* the cells below 0x200 as they were.                                    *)
C17_LoadChecked ==
    JustLoaded =>
        /\ Running(chip8)
        /\ \E contents \in LoadRoms :
              IF Len(contents) <= PROGRAM_ROOM
                THEN chip8.memory = MemoryWith(contents)
                ELSE \A a \in 0..(PROGRAM_START - 1) : chip8.memory[a] = new.memory[a]

(* what load_game does: the bytes there is room for are written in order, *)
(* no other cell changes, and it panics exactly when the file is longer   *)
LoadWritesInOrder ==
    JustLoaded =>
        \E contents \in LoadRoms :
            /\ chip8.memory = MemoryWith(contents)
            /\ Running(chip8) <=> Len(contents) <= PROGRAM_ROOM
            /\ View(chip8) = View(new)

---------------------------------------------------------------------------
(* Sound programs: V0 = a, sound timer = V0, V1 = b, sound timer = V1,    *)
(* then instructions that leave the timer alone, one of them a wait for   *)
(* a key in some programs.                                                *)

BeepSteps == 8

BeepRoms ==
    { Asm(<<InsNN(\h6000, 0, a), \hF018, InsNN(\h6000, 1, b), \hF118,
            op_code, \h6200, \h6200, \h120E>>) :
        a \in 0..3, b \in 0..3, op_code \in {\h6200, \hF20A} }

LoadBeep == LoadGame(BeepRoms)
StepBeep == Cycle(BeepSteps)
NextBeep == LoadBeep \/ StepBeep
SpecBeep == Init /\ [][NextBeep]_vars

(* the sound timer when the timer update of the cycle starting from c *)
(* runs: FX18 is the one handler that assigns it                      *)
SoundAtUpdate(c) ==
    IF IsF(get_op_code(c), \h18) THEN c.v[OpX(get_op_code(c))] ELSE c.sound_timer

(* the cycle from c to d has run its timer update *)
TimersUpdated(d) == Running(d) /\ d.state # "Block"

(* the calls of emulate_cycle so far in which FX18 set the sound timer *)
(* from 1 to 0, and those whose timer update took it from 1 to 0       *)
SetFromOneToZero ==
    { k \in 1..Len(hist) :
        /\ IsF(hist[k].op, \h18)
        /\ hist[k].before.sound_timer = 1
        /\ hist[k].before.v[OpX(hist[k].op)] = 0 }

DecrementedFromOneToZero ==
    { k \in 1..Len(hist) :
        /\ After(k).state # "Block"
        /\ k = Len(hist) => Running(chip8)
        /\ After(k).sound_timer = 0
        /\ IF IsF(hist[k].op, \h18) THEN hist[k].before.v[OpX(hist[k].op)] = 1
                                    ELSE hist[k].before.sound_timer = 1 }

(* C18 as stated: the number of beeps equals the number of times the     *)
(* sound timer has gone from 1 to 0, by whichever assignment.            *)
C18_BeepPerTransition ==
    beeps = Cardinality(SetFromOneToZero) + Cardinality(DecrementedFromOneToZero)

(* C18: a cycle prints BEEP! once if its timer update decrements the     *)
(* sound timer from 1 to 0 and not at all otherwise (not on a decrement  *)
(* from more than 1, not with the timer 0 at the update, not when FX18   *)
(* sets the timer from 1 to 0); the number of beeps is the number of     *)
(* such decrements.                                                      *)
C18_BeepPerDecrement ==
    /\ [](beeps = Cardinality(DecrementedFromOneToZero))
    /\ [][ CycleStep =>
             /\ beeps' - beeps \in {0, 1}
             /\ beeps' = beeps + 1 <=>
                   /\ TimersUpdated(chip8')
                   /\ SoundAtUpdate(chip8) = 1
                   /\ chip8'.sound_timer = 0 ]_vars

(* FX18 set the timer to 2: its cycle took it to 1 without a beep, the   *)
(* next cycle took it to 0 with a beep, and the cycle of a second FX18   *)
(* setting it to 1 beeped again                                          *)
C18_Witness ==
    /\ Len(hist) = 4
    /\ IsF(hist[2].op, \h18) /\ hist[2].before.v[0] = 2
    /\ hist[3].before.sound_timer = 1
    /\ hist[4].before.sound_timer = 0
    /\ IsF(Last.op, \h18) /\ Last.before.v[1] = 1
    /\ chip8.sound_timer = 0
    /\ DecrementedFromOneToZero = {3, 4}
    /\ beeps = 2

---------------------------------------------------------------------------
(* The conditions under which a cycle starting from c is to fail: the     *)
(* fetch beyond memory, a word outside the opcode table, 00EE with SP = 0 *)
(* and 2NNN with SP = 16, EX9E and EXA1 with VX >= 16, and an address     *)
(* through I beyond memory.                                               *)
ErrorCondition(c) ==
    LET op_code == get_op_code(c)
    IN  \/ op_code = NoOpCode
        \/ ~InOpcodeTable(op_code)
        \/ IsReturn(op_code) /\ c.stack_pointer = 0
        \/ IsCall(op_code) /\ c.stack_pointer >= STACK_SIZE
        \/ /\ IsSkipKey(op_code, \h9E) \/ IsSkipKey(op_code, \hA1)
           /\ c.v[OpX(op_code)] >= NUM_KEYS
        \/ LastAddress(c) >= MEMORY_SIZE

(* C19: the machine stops for good only in a cycle that hit one of the   *)
(* error conditions, and once it has stopped nothing of it changes any   *)
(* more.  The state in which the code stops for good is the panic.       *)
C19_TerminalOnlyOnErrors ==
    [][ /\ (CycleStep /\ Running(chip8) /\ ~Running(chip8')) => ErrorCondition(chip8)
        /\ ~Running(chip8) => chip8' = chip8 ]_vars

(* what the panics of a cycle are: the error conditions, an arithmetic *)
(* overflow in a build with overflow checks, and a draw                *)
PanicsOnlyOn ==
    [][ (CycleStep /\ Running(chip8) /\ ~Running(chip8')) =>
           \/ ErrorCondition(chip8)
           \/ /\ overflow_checks
              /\ chip8'.panic \in {"attempt to add with overflow",
                                   "attempt to subtract with overflow"}
           \/ IsDraw(get_op_code(chip8)) ]_vars

---------------------------------------------------------------------------
(* C20: after a cycle the state is Draw only if the cycle executed Dxyn   *)
(* and Clear only if it executed 00E0; every cycle resets the state to    *)
(* Run before it fetches, so a cycle that executed another instruction    *)
(* does not end in Draw or Clear.                                         *)
C20_PendingOneShot ==
    (Stepped /\ Running(chip8)) =>
        /\ chip8.state = "Draw" => IsDraw(Last.op)
        /\ chip8.state = "Clear" => Last.op = \h00E0

(* the same by the handler that ran: Draw is left by draw alone and Clear *)
(* by clear_screen alone, which execute runs for every word 0x0NN0        *)
PendingOnlyFromHandlers ==
    (Stepped /\ Running(chip8)) =>
        /\ chip8.state = "Draw" <=> IsDraw(Last.op)
        /\ chip8.state = "Clear" <=> IsOp(Last.op, \h0000, 0)

---------------------------------------------------------------------------
(* Leaving Block.  The struct has one field state, which is_key_press     *)
(* sets to Block and which keys_pressed overwrites on a Quit event and on *)
(* a key-down of Space.                                                   *)

SatisfiedKeyWait ==
    /\ CycleStep
    /\ IsKeyWait(get_op_code(chip8))
    /\ Pressed(chip8.keys) # {}
    /\ chip8'.state = "Run"
    /\ chip8'.v = [chip8.v EXCEPT ![OpX(get_op_code(chip8))] =
                                     Lowest(Pressed(chip8.keys))]
    /\ chip8'.program_counter = chip8.program_counter + 2

(* C21: in every behaviour of run_loop, whatever events the host         *)
(* delivers, the state that follows Block is Block, or it is the Run set *)
(* by a cycle in which Fx0A found a pressed key (Vx set, PC advanced by  *)
(* 2).                                                                   *)
C21_BlockLeftOnlyByKey ==
    [][ (chip8.state = "Block" /\ Running(chip8)) =>
          (chip8'.state = "Block" \/ SatisfiedKeyWait) ]_vars

(* what holds: a call of emulate_cycle leaves Block only that way *)
BlockLeftByCycleOnlyByKey ==
    [][ (CycleStep /\ chip8.state = "Block" /\ Running(chip8)) =>
          (chip8'.state = "Block" \/ SatisfiedKeyWait) ]_vars

(* Block has become Run in keys_pressed with no key pressed: two *)
(* key-downs of Space in one drain                               *)
BlockToRunWithoutKey ==
    /\ run_loop = "match"
    /\ Stepped
    /\ IsKeyWait(Last.op)
    /\ chip8.state = "Run"
    /\ Pressed(chip8.keys) = {}
    /\ chip8.program_counter = Last.before.program_counter
    /\ chip8.v = Last.before.v

---------------------------------------------------------------------------
(* Pause.  run_loop skips emulate_cycle while the state is Pause;         *)
(* keys_pressed borrows keys and state only.                              *)

PauseSteps == 3

PauseRoms ==
    { \* a draw, then the delay timer set from V2
      Asm(<<\hD005, \h6209, \hF215, \h1200>>),
      \* both timers set from V2
      Asm(<<\h6209, \hF218, \hF215, \h1200>>),
      \* a call and a key wait inside it
      Asm(<<\h2204, \h1200, \hF30A, \h00EE>>) }

LoadPause == LoadGame(PauseRoms)
StepPause == RunEmulateCycle(PauseSteps)
NextPause == LoadPause \/ StepPause \/ RunKeysPressed \/ RunMatch
SpecPause == Init /\ [][NextPause]_vars

(* everything of the struct but the key latch and the state is as it was *)
OnlyKeysAndStateChange ==
    chip8' = [chip8 EXCEPT !.keys = chip8'.keys, !.state = chip8'.state]

(* C22: while the state is Pause no step of run_loop changes PC, V0..VF, *)
(* I, memory, the stack, SP, the display or a timer (the key latch may   *)
(* change), no instruction runs and nothing beeps; the event that        *)
(* requests the pause and the one that lifts it change nothing of those  *)
(* either, so the first cycle after the pause fetches at the PC that was *)
(* pending when the pause was requested.                                 *)
C22_PauseKeepsState ==
    [][ /\ (Running(chip8) /\ chip8.state = "Pause") =>
              /\ OnlyKeysAndStateChange
              /\ hist' = hist
              /\ beeps' = beeps
        /\ (Running(chip8) /\ chip8.state # "Pause" /\ chip8'.state = "Pause") =>
              OnlyKeysAndStateChange
        /\ CycleStep =>
              /\ chip8.state # "Pause"
              /\ hist'[Len(hist')].op = get_op_code(chip8)
              /\ hist'[Len(hist')].before.program_counter = chip8.program_counter
      ]_vars

(* the draw left the state Draw and the next cycle began in Run: a pause *)
(* was requested and lifted between the two, and the cycle ran the       *)
(* instruction after the draw; now the machine is paused again with the  *)
(* delay timer running, and the loop has skipped emulate_cycle           *)
C22_Witness ==
    /\ Len(hist) = 3
    /\ IsDraw(hist[1].op)
    /\ hist[2].op = \h6209
    /\ hist[2].before.state = "Run"
    /\ hist[2].before.program_counter = hist[1].before.program_counter + 2
    /\ Last.op = \hF215
    /\ chip8.state = "Pause"
    /\ run_loop = "keys_pressed"
    /\ chip8.delay_timer = 8
    /\ chip8.program_counter = PROGRAM_START + 6
    /\ Running(chip8)

---------------------------------------------------------------------------
(* Timer writes.  emulate_cycle runs the timer update after execute, in   *)
(* the same call.                                                         *)

TimerSteps == 3

TimerValues == {0, 1, 2, 128, 255}

TimerRoms ==
    { Asm(<<InsNN(\h6000, x, k), InsNN(\hF000, x, set), InsNN(\hF000, y, \h07)>>) :
        x \in {0, 7, 15}, y \in {1, 7}, k \in TimerValues, set \in {\h15, \h18} }

LoadTimer == LoadGame(TimerRoms)
StepTimer == Cycle(TimerSteps)
NextTimer == LoadTimer \/ StepTimer
SpecTimer == Init /\ [][NextTimer]_vars

(* C23: when a cycle that ran Fx15 returns, the delay timer is Vx; when  *)
(* a cycle that ran Fx18 returns, the sound timer is Vx; an Fx07 run as  *)
(* the next instruction after an Fx15 reads that value back.             *)
C23_TimerWritesExact ==
    (Stepped /\ Running(chip8)) =>
        /\ IsF(Last.op, \h15) => chip8.delay_timer = Last.before.v[LastX]
        /\ IsF(Last.op, \h18) => chip8.sound_timer = Last.before.v[LastX]
        /\ (Len(hist) >= 2 /\ IsF(Last.op, \h07) /\ IsF(hist[Len(hist) - 1].op, \h15)) =>
              chip8.v[LastX] =
                  hist[Len(hist) - 1].before.v[OpX(hist[Len(hist) - 1].op)]

(* what the cycle leaves: the value written, less the decrement of the *)
(* same cycle; the Fx07 of the next cycle reads that                   *)
TimerWritesLessOne ==
    LET less(k) == IF k > 0 THEN k - 1 ELSE 0
    IN  (Stepped /\ Running(chip8)) =>
        /\ IsF(Last.op, \h15) => chip8.delay_timer = less(Last.before.v[LastX])
        /\ IsF(Last.op, \h18) => chip8.sound_timer = less(Last.before.v[LastX])
        /\ (Len(hist) >= 2 /\ IsF(Last.op, \h07) /\ IsF(hist[Len(hist) - 1].op, \h15)) =>
              chip8.v[LastX] =
                  less(hist[Len(hist) - 1].before.v[OpX(hist[Len(hist) - 1].op)])

---------------------------------------------------------------------------
(* The machine as Chip8::new returns it, before load_game *)

Constructed == ~loaded /\ hist = << >>

(* C24: a newly constructed machine has memory[0..80) equal to          *)
(* CHIP8_FONT_SET and every other byte of memory 0, V0..VF 0, I 0, PC    *)
(* 0x200, the 2048 cells of the display 0, state Run, both timers 0, the *)
(* 16 stack entries 0, SP 0 and the 16 keys released.                    *)
C24_NewMachine ==
    Constructed =>
        /\ DOMAIN chip8.memory = 0..4095
        /\ \A a \in 0..79 : chip8.memory[a] = CHIP8_FONT_SET[a + 1]
        /\ \A a \in 80..4095 : chip8.memory[a] = 0
        /\ DOMAIN chip8.v = 0..15
        /\ \A r \in 0..15 : chip8.v[r] = 0
        /\ chip8.i = 0
        /\ chip8.program_counter = \h200
        /\ DOMAIN chip8.gfx = 0..2047
        /\ \A p \in 0..2047 : chip8.gfx[p] = 0
        /\ chip8.state = "Run"
        /\ chip8.delay_timer = 0
        /\ chip8.sound_timer = 0
        /\ DOMAIN chip8.stack = 0..15
        /\ \A s \in 0..15 : chip8.stack[s] = 0
        /\ chip8.stack_pointer = 0
        /\ DOMAIN chip8.keys = 0..15
        /\ \A k \in 0..15 : chip8.keys[k] = 0
        /\ Running(chip8)

(* the machine just constructed, the last byte of the glyph of F in place *)
C24_Witness ==
    /\ Constructed
    /\ Len(CHIP8_FONT_SET) = 80
    /\ chip8.memory[79] = \h80
    /\ chip8.memory[80] = 0
    /\ chip8.program_counter = PROGRAM_START

---------------------------------------------------------------------------
(* Font lookup *)

FontSteps == 5

FontRoms ==
    { Asm(<<InsNN(\h6000, x, digit), InsNN(\hF000, x, \h29)>>) :
        x \in {0, 7, 15}, digit \in 0..15 }
    \cup
    \* the glyph of 5 overwritten by a register dump before the lookup
    { Asm(<<\h60FF, \hA019, \hF055, \h6005, \hF029>>) }

LoadFont == LoadGame(FontRoms)
StepFont == Cycle(FontSteps)
NextFont == LoadFont \/ StepFont
SpecFont == Init /\ [][NextFont]_vars

(* no instruction that stores to memory (Fx33, Fx55) has run *)
FontNotWritten == \A k \in 1..Len(hist) : ~IsF(hist[k].op, \h33) /\ ~IsF(hist[k].op, \h55)

(* the five bytes of the glyph of digit, as the table lists them *)
Glyph(digit) == [j \in 0..4 |-> CHIP8_FONT_SET[5 * digit + j + 1]]

(* C25: a cycle that runs Fx29 with Vx = d in 0..15 sets I to 5 * d and  *)
(* adds 2 to PC; if nothing has been stored to memory since construction *)
(* the bytes memory[5d .. 5d+5) are the glyph of d (F0 80 F0 10 F0 for   *)
(* d = 5, at I = 25).                                                    *)
C25_FontLookup ==
    (Stepped /\ IsF(Last.op, \h29) /\ Last.before.v[LastX] \in 0..15) =>
        LET d == Last.before.v[LastX]
        IN  /\ Running(chip8)
            /\ chip8.i = 5 * d
            /\ chip8.program_counter = Last.before.program_counter + 2
            /\ FontNotWritten =>
                  /\ \A j \in 0..4 : chip8.memory[chip8.i + j] = Glyph(d)[j]
                  /\ d = 5 => /\ chip8.i = 25
                              /\ [j \in 0..4 |-> chip8.memory[25 + j]] =
                                    (0 :> \hF0 @@ 1 :> \h80 @@ 2 :> \hF0 @@ 3 :> \h10 @@ 4 :> \hF0)

(* FF29 has run with VF = 15: I is 75, at the glyph of F, the last of the table *)
C25_Witness ==
    /\ Stepped
    /\ Last.op = \hFF29
    /\ Last.before.v[15] = 15
    /\ FontNotWritten
    /\ chip8.i = 75
    /\ chip8.memory[75] = \hF0
    /\ chip8.memory[79] = \h80
    /\ chip8.program_counter = PROGRAM_START + 4

---------------------------------------------------------------------------
(* Conditional skips *)

SkipSteps == 5

SkipValues == {0, 1, 255}

SkipRoms ==
    { Asm(<<InsNN(\h6000, x, a), InsNN(\h6000, y, b), op>>) :
        x \in {0, 15}, y \in {1, 15}, a \in SkipValues, b \in SkipValues,
        op \in {InsNN(\h3000, x, nn) : x \in {0, 15}, nn \in SkipValues}
               \cup {InsNN(\h4000, x, nn) : x \in {0, 15}, nn \in SkipValues}
               \cup {Ins(f, x, y, 0) : f \in {\h5000, \h9000}, x \in {0, 15}, y \in {1, 15}} }
    \cup
    { \* a skip inside a subroutine, I set
      Asm(<<\hA123, \h2204, \h5010>>),
      \* skips right after a draw, the timers running
      Asm(<<\h60FF, \hF015, \hF018, \hD115, \h3000>>),
      Asm(<<\h60FF, \hF015, \hF018, \hD115, \h4000>>),
      Asm(<<\hD005, \h9010>>) }

LoadSkip == LoadGame(SkipRoms)
StepSkip == Cycle(SkipSteps)
NextSkip == LoadSkip \/ StepSkip
SpecSkip == Init /\ [][NextSkip]_vars

(* whether the skip instruction op_code skips, the registers being v; *)
(* the four rows of the instruction table                             *)
Skips(op_code, v) ==
    CASE Family(op_code) = \h3000 -> v[OpX(op_code)] = OpNN(op_code)
      [] Family(op_code) = \h4000 -> v[OpX(op_code)] # OpNN(op_code)
      [] Family(op_code) = \h5000 -> v[OpX(op_code)] = v[OpY(op_code)]
      [] Family(op_code) = \h9000 -> v[OpX(op_code)] # v[OpY(op_code)]

IsSkip(op_code) ==
    /\ op_code # NoOpCode
    /\ \/ Family(op_code) \in {\h3000, \h4000}
       \/ Family(op_code) \in {\h5000, \h9000} /\ OpN(op_code) = 0

(* C26: a cycle that runs 3xnn, 4xnn, 5xy0 or 9xy0 adds 4 to PC if the   *)
(* condition of the instruction holds and 2 if not, and leaves V0..VF,   *)
(* I, SP, the stack, memory, the display and the key latch as they were; *)
(* the state is the one the instruction was fetched in (Run: the cycle   *)
(* has reset a pending Draw or Clear before the fetch).  The timers are  *)
(* not part of the frame.                                                *)
C26_ConditionalSkips ==
    [][ (CycleStep /\ IsSkip(get_op_code(chip8))) =>
          chip8' = [chip8 EXCEPT
                      !.program_counter =
                          IF Skips(get_op_code(chip8), chip8.v) THEN @ + 4 ELSE @ + 2,
                      !.state = IF @ # "Block" THEN "Run" ELSE @,
                      !.delay_timer = chip8'.delay_timer,
                      !.sound_timer = chip8'.sound_timer] ]_vars

(* 9F10 has run with VF = 255 and V1 = 0 and has skipped; 5F10 would not *)
C26_Witness ==
    /\ Len(hist) = 3
    /\ Last.op = \h9F10
    /\ Last.before.v[15] = 255
    /\ Last.before.v[1] = 0
    /\ chip8.program_counter = Last.before.program_counter + 4
    /\ chip8.v = Last.before.v
    /\ Running(chip8)

---------------------------------------------------------------------------
(* Clear *)

ClearSteps == 6

ClearRoms ==
    { \* the glyph of digit drawn at (a, b), then the clear
      Asm(<<InsNN(\h6000, 0, a), InsNN(\h6000, 1, b), InsNN(\h6000, 2, digit),
            \hF229, \hD015, \h00E0>>) :
        a \in {0, 20, 56}, b \in {0, 27}, digit \in 0..15 }
    \cup
    { \* the display empty
      Asm(<<\h00E0>>),
      \* inside a subroutine, I set
      Asm(<<\hA123, \h2206, \h1200, \h00E0>>),
      \* the timers running
      Asm(<<\h61FF, \hF115, \hF118, \hD005, \h00E0>>) }

LoadClear == LoadGame(ClearRoms)
StepClear == Cycle(ClearSteps)
NextClear == LoadClear \/ StepClear
SpecClear == Init /\ [][NextClear]_vars

(* C27: whatever the display holds, a cycle that runs 00E0 leaves all    *)
(* 2048 cells 0, the state Clear and PC advanced by 2, and V0..VF, I,    *)
(* SP, the stack, memory and the key latch as they were.  The timers are *)
(* not part of the frame.                                                *)
C27_ClearScreen ==
    [][ (CycleStep /\ get_op_code(chip8) = \h00E0) =>
          /\ \A p \in 0..2047 : chip8'.gfx[p] = 0
          /\ chip8' = [chip8 EXCEPT
                         !.gfx = chip8'.gfx,
                         !.state = "Clear",
                         !.program_counter = @ + 2,
                         !.delay_timer = chip8'.delay_timer,
                         !.sound_timer = chip8'.sound_timer] ]_vars

(* 00E0 has run on a display that had the glyph of F at (56, 27): the *)
(* last cell of the display was on and is off                         *)
C27_Witness ==
    /\ Stepped
    /\ Last.op = \h00E0
    /\ Last.before.state = "Draw"
    /\ Last.gfx[27 * DISPLAY_WIDTH + 56] = 1
    /\ Last.gfx[31 * DISPLAY_WIDTH + 56] = 1
    /\ Last.before.v[2] = 15
    /\ \A p \in 0..2047 : chip8.gfx[p] = 0
    /\ chip8.state = "Clear"
    /\ chip8.program_counter = Last.before.program_counter + 2
    /\ Running(chip8)

---------------------------------------------------------------------------
(* Dispatch.  execute reads the struct and, in set_vx_to_rand_and_nn,    *)
(* rand::thread_rng(); the byte the generator gives is rnd.              *)

DispatchSteps == 3

DispatchWords ==
    { \h00E0, \h00EE, \h0123, \h1206, \h2206, \h3105, \h4105, \h5120,
      \h61AA, \h71FF, \h8120, \h8121, \h8122, \h8123, \h8124, \h8125,
      \h8126, \h8127, \h812E, \h9120, \hA123, \hB204, \hC1FF, \hC10F,
      \hD125, \hE19E, \hE1A1, \hF107, \hF10A, \hF115, \hF118, \hF11E,
      \hF129, \hF133, \hF155, \hF165 }

DispatchRoms ==
    { Asm(<<\h6105, \h6203, w>>) : w \in DispatchWords }

LoadDispatch == LoadGame(DispatchRoms)
StepDispatch == Cycle(DispatchSteps)
NextDispatch == LoadDispatch \/ StepDispatch
SpecDispatch == Init /\ [][NextDispatch]_vars

(* the struct a cycle leaves is the same whatever byte the generator *)
(* would have given                                                  *)
SameForEveryByte(c, after) ==
    \A r \in 0..(U8_MOD - 1) : emulate_cycle(c, r) = after

---------------------------------------------------------------------------
(* Cxnn.  gen_range(0..255) gives a byte of the half-open range: 0..254. *)

AtRand == loaded /\ Running(chip8) /\ Family(get_op_code(chip8)) = \hC000

(* the values Vx can hold when a cycle that runs the Cxnn at PC returns *)
RandResults ==
    { emulate_cycle(chip8, rnd).v[OpX(get_op_code(chip8))] : rnd \in RandomBytes(chip8) }

(* C29: the values Vx can hold after a cycle that runs Cxnn are exactly *)
(* { r AND nn : r in 0..255 }: every byte is a possible random byte, so *)
(* with nn = FF every value 0..255 is possible, FF included, and no     *)
(* result has a bit outside nn; PC advances by 2.                       *)
C29_RandAndNN ==
    AtRand =>
        /\ RandResults = { BitAnd(r, OpNN(get_op_code(chip8))) : r \in 0..255 }
        /\ \A rnd \in RandomBytes(chip8) :
              emulate_cycle(chip8, rnd).program_counter = chip8.program_counter + 2

(* what holds: the results are the values r AND nn for r in 0..254, so *)
(* all but FF, and that one only when nn = FF                          *)
RandResultsBelow255 ==
    AtRand =>
        /\ RandResults = { BitAnd(r, OpNN(get_op_code(chip8))) : r \in 0..254 }
        /\ RandResults = { BitAnd(r, OpNN(get_op_code(chip8))) : r \in 0..255 } \ {255}
        /\ \A rnd \in RandomBytes(chip8) :
              emulate_cycle(chip8, rnd).program_counter = chip8.program_counter + 2

(* no cycle that runs Cxnn leaves Vx = FF *)
RandNever255 ==
    (Stepped /\ Family(Last.op) = \hC000 /\ Running(chip8)) => chip8.v[LastX] # 255

---------------------------------------------------------------------------
(* Shifts *)

ShiftSteps == 4

ShiftValues == {0, 1, 2, 127, 128, 129, 254, 255}

ShiftRoms ==
    { Asm(<<InsNN(\h6000, y, b), InsNN(\h6000, 15, f), InsNN(\h6000, x, a),
            Ins(\h8000, x, y, n)>>) :
        x \in {0, 14}, y \in {0, 1, 15}, a \in ShiftValues, b \in {0, 255},
        f \in {0, 1}, n \in {\h6, \hE} }

LoadShift == LoadGame(ShiftRoms)
StepShift == Cycle(ShiftSteps)
NextShift == LoadShift \/ StepShift
SpecShift == Init /\ [][NextShift]_vars

IsShift(op_code, n) ==
    /\ op_code # NoOpCode
    /\ Family(op_code) = \h8000
    /\ OpN(op_code) = n
    /\ OpX(op_code) # 15

---------------------------------------------------------------------------
(* Fx33 *)

BcdSteps == 3

BcdValues == {0, 7, 9, 10, 99, 100, 101, 128, 199, 200, 249, 255}

BcdAddrs == {\h000, \h204, \h300, \hFFD}

BcdRoms ==
    { Asm(<<InsNN(\h6000, x, vx), \hA000 + nnn, InsNN(\hF000, x, \h33)>>) :
        x \in {0, 7, 15}, vx \in BcdValues, nnn \in BcdAddrs }

LoadBcd == LoadGame(BcdRoms)
StepBcd == Cycle(BcdSteps)
NextBcd == LoadBcd \/ StepBcd
SpecBcd == Init /\ [][NextBcd]_vars

(* C31: with I + 2 < 4096, a cycle that runs Fx33 with Vx = v writes     *)
(* memory[I] = v div 100, memory[I+1] = (v div 10) mod 10 and            *)
(* memory[I+2] = v mod 10, each in 0..9 and together the decimal digits  *)
(* of v; no other cell of memory, no register and not I is changed, and  *)
(* PC advances by 2.                                                     *)
C31_Bcd ==
    [][ (CycleStep /\ IsF(get_op_code(chip8), \h33) /\ chip8.i + 2 < 4096) =>
          LET vx == chip8.v[OpX(get_op_code(chip8))]
              i == chip8.i
          IN  /\ Running(chip8')
              /\ chip8'.memory = [chip8.memory EXCEPT ![i] = vx \div 100,
                                                      ![i + 1] = (vx \div 10) % 10,
                                                      ![i + 2] = vx % 10]
              /\ \A k \in 0..2 : chip8'.memory[i + k] \in 0..9
              /\ 100 * chip8'.memory[i] + 10 * chip8'.memory[i + 1]
                    + chip8'.memory[i + 2] = vx
              /\ chip8'.v = chip8.v
              /\ chip8'.i = i
              /\ chip8'.program_counter = chip8.program_counter + 2 ]_vars

(* FF33 has run with VF = 249 and I = FFD: the last three bytes of *)
(* memory are 2, 4, 9                                              *)
C31_Witness ==
    /\ Len(hist) = 3
    /\ Last.op = \hFF33
    /\ Last.before.v[15] = 249
    /\ Last.before.i = \hFFD
    /\ chip8.memory[4093] = 2
    /\ chip8.memory[4094] = 4
    /\ chip8.memory[4095] = 9
    /\ chip8.i = \hFFD
    /\ chip8.program_counter = PROGRAM_START + 6
    /\ Running(chip8)

---------------------------------------------------------------------------
(* Timers during a key wait.  emulate_cycle returns before the timer     *)
(* update if the state is Block.  The host calls emulate_cycle for ever; *)
(* the history keeps the first WaitSteps calls.                          *)

WaitSteps == 6

WaitRoms ==
    { Asm(<<InsNN(\h6000, 0, a), \hF015, InsNN(\h6000, 1, b), \hF118, op_code, \h120A>>) :
        a \in 0..4, b \in 0..4, op_code \in {\h6200, \hF20A} }

(* one call of emulate_cycle, recorded while the history has room *)
CycleOn(max) ==
    /\ loaded
    /\ Running(chip8)
    /\ \E rnd \in RandomBytes(chip8) :
          /\ chip8' = emulate_cycle(chip8, rnd)
          /\ beeps' = beeps + emulate_cycle_beeps(chip8, rnd)
          /\ hist' = IF Len(hist) < max THEN Append(hist, Entry(chip8, rnd)) ELSE hist
    /\ UNCHANGED <<overflow_checks, loaded, run_loop, renderer>>

LoadWait == LoadGame(WaitRoms)
StepWait == CycleOn(WaitSteps)
NextWait == LoadWait \/ StepWait
(* the loop of the host does not stop: a call that can change the machine *)
(* is made in the end                                                    *)
SpecWait == Init /\ [][NextWait]_vars /\ WF_vars(StepWait)

BlockedWithTimer ==
    /\ Running(chip8)
    /\ chip8.state = "Block"
    /\ Pressed(chip8.keys) = {}
    /\ chip8.delay_timer > 0 \/ chip8.sound_timer > 0

(* C32: if a timer is not 0 when the machine blocks on Fx0A and no key  *)
(* is pressed, the timer goes on counting down, one per cycle, and      *)
(* reaches 0; if it is the sound timer, the beep of its step from 1 to  *)
(* 0 fires.                                                             *)
C32_TimersRunWhileBlocked ==
    /\ BlockedWithTimer ~> (chip8.delay_timer = 0 /\ chip8.sound_timer = 0)
    /\ \A n \in 0..1 :
         (BlockedWithTimer /\ chip8.sound_timer > 0 /\ beeps = n) ~> (beeps = n + 1)

(* what holds: a cycle that finds the machine at Fx0A with no key pressed *)
(* leaves both timers as they are and prints no beep                      *)
BlockedFreezesTimers ==
    [][ (loaded /\ Running(chip8) /\ IsKeyWait(get_op_code(chip8))
            /\ Pressed(chip8.keys) = {}) =>
          /\ chip8'.delay_timer = chip8.delay_timer
          /\ chip8'.sound_timer = chip8.sound_timer
          /\ beeps' = beeps ]_vars

(* without the key wait both timers do reach 0 *)
TimersRunOut ==
    (loaded /\ ~IsKeyWait(get_op_code(chip8))) ~>
        (IsKeyWait(get_op_code(chip8)) \/ (chip8.delay_timer = 0 /\ chip8.sound_timer = 0))

---------------------------------------------------------------------------
(* The render decision.  run_loop calls keys_pressed between the cycle   *)
(* and the match on the state.                                           *)

RenderSteps == 2

RenderRoms ==
    { \* the glyph of 0 drawn at (0, 0), then the clear
      Asm(<<\hD005, \h00E0, \h1204>>),
      \* the glyph of 0 drawn twice over itself
      Asm(<<\hD005, \hD005, \h1204>>),
      \* the clear first
      Asm(<<\h00E0, \hD005, \h1204>>) }

LoadRender == LoadGame(RenderRoms)
StepRender == RunEmulateCycle(RenderSteps)
NextRender == LoadRender \/ StepRender \/ RunKeysPressed \/ RunMatch
SpecRender == Init /\ [][NextRender]_vars

(* the iteration of the last cycle is over: the loop is about to test  *)
(* the state for the next call of emulate_cycle, or has returned       *)
IterationOver ==
    /\ Stepped
    /\ Running(chip8)
    /\ run_loop \in {"emulate_cycle", "returned"}

(* C33: in run_loop every cycle that runs Dxyn is followed, in the same  *)
(* iteration and before the next fetch, by a Renderer::draw of the       *)
(* display buffer, and every cycle that runs 00E0 by a Renderer::clear,  *)
(* whatever events keys_pressed handles in between.  So once the         *)
(* iteration is over the canvas shows the buffer the draw left, and      *)
(* after a clear it is empty.                                            *)
C33_NoSignalLost ==
    IterationOver =>
        /\ IsDraw(Last.op) => renderer = renderer_draw(renderer, chip8.gfx)
        /\ Last.op = \h00E0 => renderer.canvas = {}

(* what holds: the signal reaches the renderer if the state is still the *)
(* one the cycle left when the match reads it                            *)
SignalKeptIfStateKept ==
    [][ run_loop = "match" =>
          /\ chip8.state = "Draw" => renderer' = renderer_draw(renderer, chip8.gfx)
          /\ chip8.state = "Clear" => renderer'.canvas = {}
          /\ chip8.state \notin {"Draw", "Clear"} => renderer' = renderer ]_vars

(* a draw whose signal was lost: the iteration is over, the buffer has *)
(* the glyph and nothing was presented                                 *)
DrawSignalLost ==
    /\ IterationOver
    /\ IsDraw(Last.op)
    /\ chip8.gfx[0] = 1
    /\ renderer.presented = {}
    /\ chip8.state = "Pause"

---------------------------------------------------------------------------
(* Quit.  keys_pressed sets the state to Quit on a Quit event and goes on *)
(* with the events that follow it in the queue.                           *)

(* what keys and state can be when keys_pressed returns, a Quit event *)
(* having been among the events of the call                           *)
keys_pressed_with_quit(c) ==
    drained({ handle_event(ks, [type |-> "Quit"]) :
                ks \in drained({[keys |-> c.keys, state |-> c.state]}) })

AtKeysPressed == run_loop = "keys_pressed" /\ Running(chip8)

(* C34: if keys_pressed handles a Quit event in some iteration, the      *)
(* match of that iteration breaks the loop, whatever other events were   *)
(* in the queue before or after it and whatever the state was: the state *)
(* keys_pressed returns is Quit, and on Quit run_loop returns without    *)
(* another cycle.                                                        *)
C34_QuitStopsLoop ==
    /\ [](AtKeysPressed => \A ks \in keys_pressed_with_quit(chip8) : ks.state = "Quit")
    /\ [][ (run_loop = "match" /\ chip8.state = "Quit") =>
              (run_loop' = "returned" /\ hist' = hist) ]_vars
    /\ [][ run_loop = "returned" => UNCHANGED vars ]_vars

(* what holds: the loop returns if the state is Quit at the match, which *)
(* it is if the Quit event is the last of the queue; a key-down of Space *)
(* after it makes the state Pause                                        *)
QuitLastStopsLoop ==
    /\ [](AtKeysPressed =>
            \A ks \in drained({[keys |-> chip8.keys, state |-> chip8.state]}) :
               /\ handle_event(ks, [type |-> "Quit"]).state = "Quit"
               /\ handle_event(handle_event(ks, [type |-> "Quit"]),
                               [type |-> "KeyDown", keycode |-> "Space"]).state = "Pause")
    /\ [][ (run_loop = "match" /\ chip8.state = "Quit") =>
              (run_loop' = "returned" /\ hist' = hist) ]_vars
    /\ [][ run_loop = "returned" => UNCHANGED vars ]_vars
====
